---------------------------- MODULE Spec2Model ----------------------------
(***************************************************************************)
(* A model of ciphers-rs: the Enigma simulator (safe and unchecked API,    *)
(* builder chain, per-character decryption) and the cipher-type            *)
(* classifier of cipher-utils.                                             *)
(*                                                                         *)
(* Characters are their code points (char as u8 / u32); a string is the    *)
(* sequence of its characters.                                             *)
(***************************************************************************)
EXTENDS Integers, Sequences, FiniteSets, TLC

VARIABLES
    overflow_checks,  \* build profile: TRUE = debug (integer overflow panics), FALSE = release (wraps)
    builder,          \* anyhow::Result<EnigmaMachine> held by the safe builder chain
    ubuilder,         \* UncheckedEnigmaMachine held by the unchecked builder chain
    call,             \* the last builder step applied: its name, its arguments, the builder it was applied to
    run,              \* the decrypt call in progress on both machines
    ciphertext,       \* argument of CipherType::best_match
    cipher_type       \* its result

vars == <<overflow_checks, builder, ubuilder, call, run, ciphertext, cipher_type>>

(***************************************************************************)
(* Bounds of the model.                                                    *)
(***************************************************************************)
MaxLen == 2        \* longest enumerated message passed to decrypt
MaxChain == 3      \* longest enumerated chain of builder steps
MaxCipherLen == 3  \* longest enumerated text passed to best_match
MaxCandidates == 3 \* longest enumerated list of candidate plaintexts
MaxRing == 2       \* best_ring_settings searches the ring settings 1..MaxRing
MaxKeyLen == 2     \* longest key length GronsfeldCracker::decrypt is followed to
MaxPasses == 3     \* most decryption passes of CipherCracker::crack followed

(***************************************************************************)
(* char helpers of the standard library, on ASCII.                         *)
(***************************************************************************)
is_ascii_uppercase(c) == c \in 65..90
is_ascii_lowercase(c) == c \in 97..122
is_alphabetic(c) == is_ascii_uppercase(c) \/ is_ascii_lowercase(c)
is_whitespace(c) == c \in (9..13) \cup {32}
to_ascii_uppercase(c) == IF is_ascii_lowercase(c) THEN c - 32 ELSE c
to_ascii_lowercase(c) == IF is_ascii_uppercase(c) THEN c + 32 ELSE c
to_uppercase(text) == [i \in 1..Len(text) |-> to_ascii_uppercase(text[i])]
to_lowercase(text) == [i \in 1..Len(text) |-> to_ascii_lowercase(text[i])]

\* Vec::dedup: removes consecutive repeated elements.
RECURSIVE dedup(_)
dedup(chars) ==
    IF Len(chars) <= 1 THEN chars
    ELSE LET rest == dedup(Tail(chars))
         IN IF Head(chars) = Head(rest) THEN rest ELSE <<Head(chars)>> \o rest

\* str::split_whitespace: the maximal runs of non-whitespace characters, in order.
RECURSIVE split_whitespace(_)
split_whitespace(text) ==
    IF text = <<>> THEN <<>>
    ELSE IF is_whitespace(Head(text)) THEN split_whitespace(Tail(text))
    ELSE LET n == IF \E i \in 1..Len(text) : is_whitespace(text[i])
                  THEN (CHOOSE i \in 1..Len(text) :
                            /\ is_whitespace(text[i])
                            /\ \A j \in 1..(i - 1) : ~is_whitespace(text[j])) - 1
                  ELSE Len(text)
         IN <<SubSeq(text, 1, n)>> \o split_whitespace(SubSeq(text, n + 1, Len(text)))

\* All sequences over S of length at most n.
BoundedSeq(S, n) == UNION {[1..k -> S] : k \in 0..n}

(***************************************************************************)
(* enigma-simulator/src/alphabet.rs                                        *)
(***************************************************************************)
\* ALPHABET: "ABCDEFGHIJKLMNOPQRSTUVWXYZ"
ALPHABET ==
    <<65, 66, 67, 68, 69, 70, 71, 72, 73, 74, 75, 76, 77,
      78, 79, 80, 81, 82, 83, 84, 85, 86, 87, 88, 89, 90>>

None == [tag |-> "None"]
Some(v) == [tag |-> "Some", v |-> v]

\* Alphabet::new: Ok(alphabet) or the error it bails with.
Alphabet_new(alphabet) ==
    IF Len(dedup(alphabet)) # Len(alphabet)
        THEN [tag |-> "Err", err |-> <<"Duplicate letter in alphabet", alphabet>>]
    ELSE IF Len(alphabet) # 26
        THEN [tag |-> "Err", err |-> <<"Invalid alphabet length", alphabet>>]
    ELSE IF \E i \in 1..Len(alphabet) : ~is_alphabetic(alphabet[i])
        THEN [tag |-> "Err", err |-> <<"Invalid character found in alphabet", alphabet>>]
    ELSE [tag |-> "Ok", v |-> alphabet]

\* The least element of a non-empty set of integers.
Min(S) == CHOOSE x \in S : \A y \in S : x <= y

\* Alphabet::index_of: zero-based index of the first occurrence of the
\* upper-cased letter, None for a non-letter, Panic (unreachable!()) for a
\* letter the alphabet lacks.
index_of(alphabet, letter) ==
    LET code == to_ascii_uppercase(letter)
        found == {i \in 1..Len(alphabet) : alphabet[i] = code}
    IN IF ~is_ascii_uppercase(code) THEN None
       ELSE IF found # {} THEN Some(Min(found) - 1)
       ELSE [tag |-> "Panic"]

\* Alphabet::unchecked_index_of: no case folding; panics when absent.
unchecked_index_of(alphabet, letter) ==
    LET found == {i \in 1..Len(alphabet) : alphabet[i] = letter}
    IN IF found # {} THEN Some(Min(found) - 1)
       ELSE [tag |-> "Panic"]

\* Alphabet::letter_at / unchecked_letter_at: self.alphabet[index], zero-based.
letter_at(alphabet, index) == alphabet[index + 1]

\* TryFrom<u8> / TryFrom<i32> for AlphabetIndex
AlphabetIndex_try_from(value) ==
    IF value \in 0..25
    THEN [tag |-> "Ok", v |-> value]
    ELSE [tag |-> "Err", err |-> <<"Alphabet index out of range", value>>]

\* IntoAlphabetIndex for a triple: the first failing conversion is returned by `?`.
try_into_alphabet_index(t) ==
    LET r == [i \in 1..3 |-> AlphabetIndex_try_from(t[i])]
    IN IF r[1].tag = "Err" THEN r[1]
       ELSE IF r[2].tag = "Err" THEN r[2]
       ELSE IF r[3].tag = "Err" THEN r[3]
       ELSE [tag |-> "Ok", v |-> <<r[1].v, r[2].v, r[3].v>>]

\* AddAssign<i32> for AlphabetIndex: (self.0 + rhs as u8) % 26
AlphabetIndex_add_assign(self, rhs) == ((self + rhs) % 256) % 26
\* Add<AlphabetIndex> for AlphabetIndex: (self.0 + rhs.0) % 26
AlphabetIndex_add(self, rhs) == ((self + rhs) % 256) % 26
\* Sub<AlphabetIndex> for AlphabetIndex: ((self.0 as i32 - rhs.0 as i32 + 26) % 26) as u8
AlphabetIndex_sub(self, rhs) == (self - rhs + 26) % 26

(***************************************************************************)
(* enigma-simulator/src/rotor.rs                                           *)
(***************************************************************************)
\* TryFrom<u8> for Rotor; a rotor is its number 1..8 (I..VIII).
Rotor_try_from(value) ==
    IF value \in 1..8
    THEN [tag |-> "Ok", v |-> value]
    ELSE [tag |-> "Err", err |-> <<"Rotor number out of range", value>>]

\* IntoRotors::try_into_rotors
try_into_rotors(t) ==
    LET r == [i \in 1..3 |-> Rotor_try_from(t[i])]
    IN IF r[1].tag = "Err" THEN r[1]
       ELSE IF r[2].tag = "Err" THEN r[2]
       ELSE IF r[3].tag = "Err" THEN r[3]
       ELSE [tag |-> "Ok", v |-> <<r[1].v, r[2].v, r[3].v>>]

\* IntoRotors::unchecked_into_rotors: Rotor::unchecked_from panics out of range.
unchecked_into_rotors(t) ==
    IF \A i \in 1..3 : t[i] \in 1..8
    THEN [tag |-> "Ok", v |-> t]
    ELSE [tag |-> "Panic"]

\* Rotor::alphabet: the wiring of each rotor.
Rotor_alphabet(rotor) ==
    IF rotor = 1 THEN        \* Rotor::I => "EKMFLGDQVZNTOWYHXUSPAIBRCJ"
        <<69, 75, 77, 70, 76, 71, 68, 81, 86, 90, 78, 84, 79, 87, 89, 72, 88, 85, 83, 80, 65, 73, 66, 82, 67, 74>>
    ELSE IF rotor = 2 THEN   \* Rotor::II => "AJDKSIRUXBLHWTMCQGZNPYFVOE"
        <<65, 74, 68, 75, 83, 73, 82, 85, 88, 66, 76, 72, 87, 84, 77, 67, 81, 71, 90, 78, 80, 89, 70, 86, 79, 69>>
    ELSE IF rotor = 3 THEN   \* Rotor::III => "BDFHJLCPRTXVZNYEIWGAKMUSQO"
        <<66, 68, 70, 72, 74, 76, 67, 80, 82, 84, 88, 86, 90, 78, 89, 69, 73, 87, 71, 65, 75, 77, 85, 83, 81, 79>>
    ELSE IF rotor = 4 THEN   \* Rotor::IV => "ESOVPZJAYQUIRHXLNFTGKDCMWB"
        <<69, 83, 79, 86, 80, 90, 74, 65, 89, 81, 85, 73, 82, 72, 88, 76, 78, 70, 84, 71, 75, 68, 67, 77, 87, 66>>
    ELSE IF rotor = 5 THEN   \* Rotor::V => "VZBRGITYUPSDNHLXAWMJQOFECK"
        <<86, 90, 66, 82, 71, 73, 84, 89, 85, 80, 83, 68, 78, 72, 76, 88, 65, 87, 77, 74, 81, 79, 70, 69, 67, 75>>
    ELSE IF rotor = 6 THEN   \* Rotor::VI => "JPGVOUMFYQBENHZRDKASXLICTW"
        <<74, 80, 71, 86, 79, 85, 77, 70, 89, 81, 66, 69, 78, 72, 90, 82, 68, 75, 65, 83, 88, 76, 73, 67, 84, 87>>
    ELSE IF rotor = 7 THEN   \* Rotor::VII => "NZJHGRCXMYSWBOUFAIVLPEKQDT"
        <<78, 90, 74, 72, 71, 82, 67, 88, 77, 89, 83, 87, 66, 79, 85, 70, 65, 73, 86, 76, 80, 69, 75, 81, 68, 84>>
    ELSE                     \* Rotor::VIII => "FKQHTLXOCBJSPDZRAMEWNIUYGV"
        <<70, 75, 81, 72, 84, 76, 88, 79, 67, 66, 74, 83, 80, 68, 90, 82, 65, 77, 69, 87, 78, 73, 85, 89, 71, 86>>

\* Rotor::notches
notches(rotor) ==
    IF rotor = 1 THEN <<81>>            \* I => ['Q']
    ELSE IF rotor = 2 THEN <<69>>       \* II => ['E']
    ELSE IF rotor = 3 THEN <<86>>       \* III => ['V']
    ELSE IF rotor = 4 THEN <<74>>       \* IV => ['J']
    ELSE IF rotor = 5 THEN <<90>>       \* V => ['Z']
    ELSE <<77, 90>>                     \* VI, VII, VIII => ['M', 'Z']

(***************************************************************************)
(* enigma-simulator/src/reflector.rs                                       *)
(***************************************************************************)
Reflectors == {"A", "B", "C", "BThin", "CThin", "Ukwr", "Ukwk"}

\* Reflector_wiring with two letters of reflector C exchanged ("FVPJIA.." typed
\* as "VFPJIA.."), as a slip in a wiring literal would.
Reflector_wiring_typo(reflector) ==
    IF reflector = "A" THEN
        <<69, 74, 77, 90, 65, 76, 89, 88, 86, 66, 87, 70, 67, 82, 81, 85, 79, 78, 84, 83, 80, 73, 75, 72, 71, 68>>
    ELSE IF reflector = "B" THEN
        <<89, 82, 85, 72, 81, 83, 76, 68, 80, 88, 78, 71, 79, 75, 77, 73, 69, 66, 70, 90, 67, 87, 86, 74, 65, 84>>
    ELSE IF reflector = "C" THEN
        <<86, 70, 80, 74, 73, 65, 79, 89, 69, 68, 82, 90, 88, 87, 71, 67, 84, 75, 85, 81, 83, 66, 78, 77, 72, 76>>
    ELSE IF reflector = "BThin" THEN
        <<69, 78, 75, 81, 65, 85, 89, 87, 74, 73, 67, 79, 80, 66, 76, 77, 68, 88, 90, 86, 70, 84, 72, 82, 71, 83>>
    ELSE IF reflector = "CThin" THEN
        <<82, 68, 79, 66, 74, 78, 84, 75, 86, 69, 72, 77, 76, 70, 67, 87, 90, 65, 88, 71, 89, 73, 80, 83, 85, 81>>
    ELSE IF reflector = "Ukwr" THEN
        <<81, 89, 72, 79, 71, 78, 69, 67, 86, 80, 85, 90, 84, 70, 68, 74, 65, 88, 87, 77, 75, 73, 83, 82, 66, 76>>
    ELSE
        <<73, 77, 69, 84, 67, 71, 70, 82, 65, 89, 83, 81, 66, 90, 88, 87, 76, 72, 75, 68, 86, 85, 80, 79, 74, 78>>

\* The standard reflector alphabet matched in Reflector::alphabet.
Reflector_wiring(reflector) ==
    IF reflector = "A" THEN            \* Self::A => "EJMZALYXVBWFCRQUONTSPIKHGD"
        <<69, 74, 77, 90, 65, 76, 89, 88, 86, 66, 87, 70, 67, 82, 81, 85, 79, 78, 84, 83, 80, 73, 75, 72, 71, 68>>
    ELSE IF reflector = "B" THEN       \* Self::B => "YRUHQSLDPXNGOKMIEBFZCWVJAT"
        <<89, 82, 85, 72, 81, 83, 76, 68, 80, 88, 78, 71, 79, 75, 77, 73, 69, 66, 70, 90, 67, 87, 86, 74, 65, 84>>
    ELSE IF reflector = "C" THEN       \* Self::C => "FVPJIAOYEDRZXWGCTKUQSBNMHL"
        <<70, 86, 80, 74, 73, 65, 79, 89, 69, 68, 82, 90, 88, 87, 71, 67, 84, 75, 85, 81, 83, 66, 78, 77, 72, 76>>
    ELSE IF reflector = "BThin" THEN   \* Self::BThin => "ENKQAUYWJICOPBLMDXZVFTHRGS"
        <<69, 78, 75, 81, 65, 85, 89, 87, 74, 73, 67, 79, 80, 66, 76, 77, 68, 88, 90, 86, 70, 84, 72, 82, 71, 83>>
    ELSE IF reflector = "CThin" THEN   \* Self::CThin => "RDOBJNTKVEHMLFCWZAXGYIPSUQ"
        <<82, 68, 79, 66, 74, 78, 84, 75, 86, 69, 72, 77, 76, 70, 67, 87, 90, 65, 88, 71, 89, 73, 80, 83, 85, 81>>
    ELSE IF reflector = "Ukwr" THEN    \* Self::Ukwr => "QYHOGNECVPUZTFDJAXWMKISRBL"
        <<81, 89, 72, 79, 71, 78, 69, 67, 86, 80, 85, 90, 84, 70, 68, 74, 65, 88, 87, 77, 75, 73, 83, 82, 66, 76>>
    ELSE                               \* Self::Ukwk => "IMETCGFRAYSQBZXWLHKDVUPOJN"
        <<73, 77, 69, 84, 67, 71, 70, 82, 65, 89, 83, 81, 66, 90, 88, 87, 76, 72, 75, 68, 86, 85, 80, 79, 74, 78>>

\* HashMap::insert: a later insert of the same key overwrites the earlier one.
insert(map, key, value) ==
    [k \in (DOMAIN map) \cup {key} |-> IF k = key THEN value ELSE map[k]]

EmptyMap == [k \in {} |-> 0]

\* Reflector::alphabet: for (letter, reflected_letter) in ALPHABET zip wiring,
\* map.insert(reflected_letter, letter).
RECURSIVE Reflector_insert_all(_, _, _)
Reflector_insert_all(map, wiring, i) ==
    IF i > Len(ALPHABET) \/ i > Len(wiring) THEN map
    ELSE Reflector_insert_all(insert(map, wiring[i], ALPHABET[i]), wiring, i + 1)

\* REFLECTORS: the memoized maps, one per reflector, built on first use.
REFLECTORS ==
    [reflector \in Reflectors |-> Reflector_insert_all(EmptyMap, Reflector_wiring(reflector), 1)]

Reflector_alphabet(reflector) == REFLECTORS[reflector]

(***************************************************************************)
(* enigma-simulator/src/enigma.rs                                          *)
(***************************************************************************)
\* MachineOptions::default()
MachineOptions_default == [clear_casing |-> FALSE, clear_punctuation |-> FALSE, debug |-> FALSE]

\* caeser_shift: (((code - 65 + amount) % 26) + 65) for codes in 65..=90.
caeser_shift(text, amount) ==
    [i \in 1..Len(text) |->
        IF text[i] \in 65..90 THEN (((text[i] - 65 + amount) % 256) % 26) + 65 ELSE text[i]]

(***************************************************************************)
(* enigma-simulator/src/safe_enigma.rs: EnigmaMachine                      *)
(***************************************************************************)
Ok(v) == [tag |-> "Ok", v |-> v]
Err(e) == [tag |-> "Err", err |-> e]
Panic == [tag |-> "Panic"]
\* A result slot before the call it belongs to has been made.
NotCalled == [tag |-> "NotCalled"]

\* u8 subtraction `value - 1`: wraps in a release build; in a debug build a
\* value of 0 panics (see the callers).
u8_sub_one(value) == (value + 255) % 256

\* EnigmaMachine::new
EnigmaMachine_new ==
    Ok([rotors |-> try_into_rotors(<<1, 1, 1>>).v,
        ring_positions |-> try_into_alphabet_index(<<1, 1, 1>>).v,
        ring_settings |-> try_into_alphabet_index(<<1, 1, 1>>).v,
        reflector |-> "A",
        plugboard |-> EmptyMap,
        options |-> MachineOptions_default])

\* EnigmaMachine::unchecked
EnigmaMachine_unchecked ==
    Ok([rotors |-> <<1, 1, 1>>,
        ring_positions |-> <<1, 1, 1>>,
        ring_settings |-> <<1, 1, 1>>,
        reflector |-> "A",
        plugboard |-> EmptyMap])

\* shifted_rotor without the two halves exchanged: the caeser shift alone.
shifted_rotor_unrotated(rotor, setting) == caeser_shift(Rotor_alphabet(rotor), setting)

\* The rotor alphabet of decrypt: caeser_shift by the ring setting, then the
\* last `setting` letters moved to the front.
shifted_rotor(rotor, setting) ==
    LET shifted == caeser_shift(Rotor_alphabet(rotor), setting)
    IN SubSeq(shifted, (26 - setting) + 1, Len(shifted)) \o SubSeq(shifted, 1, 26 - setting)

\* The three rotor alphabets decrypt prepares before its loop, for every
\* rotor and every ring setting that is an alphabet index.
ShiftedRotors == [rotor \in 1..8 |-> [setting \in 0..25 |-> shifted_rotor(rotor, setting)]]

\* `.notches().iter().map(|notch| ALPHABET.index_of(*notch).unwrap()).contains(&letter)`
at_notch(rotor, letter) ==
    \E i \in 1..Len(notches(rotor)) : index_of(ALPHABET, notches(rotor)[i]) = Some(letter)

\* rotate without its "Double step sequence" branch.
rotate_no_double_step(rotors, pos) ==
    LET a == pos[1]
        b == pos[2]
        c == pos[3]
        c1 == AlphabetIndex_add_assign(c, 1)
    IN IF at_notch(rotors[3], c)
       THEN IF at_notch(rotors[2], b)
            THEN <<AlphabetIndex_add_assign(a, 1), AlphabetIndex_add_assign(b, 1), c1>>
            ELSE <<a, AlphabetIndex_add_assign(b, 1), c1>>
       ELSE <<a, b, c1>>

\* rotate whose "Double step sequence" branch advances the first rotor only.
rotate_first_only(rotors, pos) ==
    LET a == pos[1]
        b == pos[2]
        c == pos[3]
        c1 == AlphabetIndex_add_assign(c, 1)
    IN IF at_notch(rotors[3], c)
       THEN IF at_notch(rotors[2], b)
            THEN <<AlphabetIndex_add_assign(a, 1), AlphabetIndex_add_assign(b, 1), c1>>
            ELSE <<a, AlphabetIndex_add_assign(b, 1), c1>>
       ELSE IF at_notch(rotors[2], b)
            THEN <<AlphabetIndex_add_assign(a, 1), b, c1>>
            ELSE <<a, b, c1>>

\* Rotation of the three rotor letters before a letter is substituted
\* (decrypt, "Rotate rotor 3" .. "Double step sequence").
rotate(rotors, pos) ==
    LET a == pos[1]
        b == pos[2]
        c == pos[3]
        c1 == AlphabetIndex_add_assign(c, 1)
    IN IF at_notch(rotors[3], c)
       THEN IF at_notch(rotors[2], b)
            THEN <<AlphabetIndex_add_assign(a, 1), AlphabetIndex_add_assign(b, 1), c1>>
            ELSE <<a, AlphabetIndex_add_assign(b, 1), c1>>
       ELSE IF at_notch(rotors[2], b)
            THEN <<AlphabetIndex_add_assign(a, 1), AlphabetIndex_add_assign(b, 1), c1>>
            ELSE <<a, b, c1>>

\* `if let Some(plugboarded_letter) = self.plugboard.get(&letter)`
plugboard_pass(plugboard, r) ==
    IF r.tag # "Some" THEN r
    ELSE IF r.v \in DOMAIN plugboard THEN Some(plugboard[r.v]) ELSE r

\* "Rotor n Encryption" on the way in: ALPHABET index, rotor letter at
\* pos + offset, ALPHABET letter at its index - offset.
rotor_forward(rotor, offset, r) ==
    IF r.tag # "Some" THEN r
    ELSE LET pos == index_of(ALPHABET, r.v)
         IN IF pos.tag # "Some" THEN Panic
            ELSE LET let_ == letter_at(rotor, AlphabetIndex_add(pos.v, offset))
                     pos2 == index_of(ALPHABET, let_)
                 IN IF pos2.tag # "Some" THEN Panic
                    ELSE Some(letter_at(ALPHABET, AlphabetIndex_sub(pos2.v, offset)))

\* "Reflector Encryption": *self.reflector.alphabet().get(&letter).unwrap()
reflector_pass(reflector, r) ==
    IF r.tag # "Some" THEN r
    ELSE IF r.v \in DOMAIN Reflector_alphabet(reflector)
         THEN Some(Reflector_alphabet(reflector)[r.v])
         ELSE Panic

\* "Rotor n Encryption" on the way back: ALPHABET letter at pos + offset, its
\* index in the rotor, ALPHABET letter at that index - offset.
rotor_backward(rotor, offset, r) ==
    IF r.tag # "Some" THEN r
    ELSE LET pos == index_of(ALPHABET, r.v)
         IN IF pos.tag # "Some" THEN Panic
            ELSE LET let_ == letter_at(ALPHABET, AlphabetIndex_add(pos.v, offset))
                     pos2 == index_of(rotor, let_)
                 IN IF pos2.tag # "Some" THEN Panic
                    ELSE Some(letter_at(ALPHABET, AlphabetIndex_sub(pos2.v, offset)))

\* The closure of EnigmaMachine::decrypt applied to one character of the
\* upper-cased text, with the rotor letters `pos` before it: the rotor letters
\* after it and the string it yields (Panic when an unwrap fails).
decrypt_char(machine, pos, letter) ==
    IF ~is_alphabetic(letter)
    THEN [pos |-> pos,
          out |-> IF machine.options.clear_punctuation THEN Some(<<>>) ELSE Some(<<letter>>)]
    ELSE LET rotor_a == ShiftedRotors[machine.rotors[1]][machine.ring_settings[1]]
             rotor_b == ShiftedRotors[machine.rotors[2]][machine.ring_settings[2]]
             rotor_c == ShiftedRotors[machine.rotors[3]][machine.ring_settings[3]]
             offset == rotate(machine.rotors, pos)
             l1 == plugboard_pass(machine.plugboard, Some(letter))
             l2 == rotor_forward(rotor_c, offset[3], l1)
             l3 == rotor_forward(rotor_b, offset[2], l2)
             l4 == rotor_forward(rotor_a, offset[1], l3)
             l5 == reflector_pass(machine.reflector, l4)
             l6 == rotor_backward(rotor_a, offset[1], l5)
             l7 == rotor_backward(rotor_b, offset[2], l6)
             l8 == rotor_backward(rotor_c, offset[3], l7)
             l9 == plugboard_pass(machine.plugboard, l8)
         IN [pos |-> offset,
             out |-> IF l9.tag = "Some" THEN Some(<<l9.v>>) ELSE Panic]

(***************************************************************************)
(* enigma-simulator/src/unsafe_enigma.rs: UncheckedEnigmaMachine           *)
(***************************************************************************)
\* `.notches().iter().map(|notch| ALPHABET.unchecked_index_of(*notch)).contains(&letter)`
unchecked_at_notch(rotor, letter) ==
    \E i \in 1..Len(notches(rotor)) : unchecked_index_of(ALPHABET, notches(rotor)[i]) = Some(letter)

\* unchecked_rotate without its "Double step sequence" branch.
unchecked_rotate_no_double_step(rotors, pos) ==
    LET a == pos[1]
        b == pos[2]
        c == pos[3]
        c1 == ((c + 1) % 256) % 26
    IN IF unchecked_at_notch(rotors[3], c)
       THEN IF unchecked_at_notch(rotors[2], b)
            THEN <<((a + 1) % 256) % 26, ((b + 1) % 256) % 26, c1>>
            ELSE <<a, ((b + 1) % 256) % 26, c1>>
       ELSE <<a, b, c1>>

\* Rotation in decrypt_unchecked: rotor_x_letter = (rotor_x_letter + 1) % 26 on u8.
unchecked_rotate(rotors, pos) ==
    LET a == pos[1]
        b == pos[2]
        c == pos[3]
        c1 == ((c + 1) % 256) % 26
    IN IF unchecked_at_notch(rotors[3], c)
       THEN IF unchecked_at_notch(rotors[2], b)
            THEN <<((a + 1) % 256) % 26, ((b + 1) % 256) % 26, c1>>
            ELSE <<a, ((b + 1) % 256) % 26, c1>>
       ELSE IF unchecked_at_notch(rotors[2], b)
            THEN <<((a + 1) % 256) % 26, ((b + 1) % 256) % 26, c1>>
            ELSE <<a, b, c1>>

\* "Rotor n Encryption" of decrypt_unchecked on the way in.
unchecked_rotor_forward(rotor, offset, r) ==
    IF r.tag # "Some" THEN r
    ELSE LET pos == unchecked_index_of(ALPHABET, r.v)
         IN IF pos.tag # "Some" THEN Panic
            ELSE LET let_ == letter_at(rotor, ((pos.v + offset) % 256) % 26)
                     pos2 == unchecked_index_of(ALPHABET, let_)
                 IN IF pos2.tag # "Some" THEN Panic
                    ELSE Some(letter_at(ALPHABET, ((pos2.v + 26 - offset) % 256) % 26))

\* "Rotor n Encryption" of decrypt_unchecked on the way back.
unchecked_rotor_backward(rotor, offset, r) ==
    IF r.tag # "Some" THEN r
    ELSE LET pos == unchecked_index_of(ALPHABET, r.v)
         IN IF pos.tag # "Some" THEN Panic
            ELSE LET let_ == letter_at(ALPHABET, ((pos.v + offset) % 256) % 26)
                     pos2 == unchecked_index_of(rotor, let_)
                 IN IF pos2.tag # "Some" THEN Panic
                    ELSE Some(letter_at(ALPHABET, ((pos2.v + 26 - offset) % 256) % 26))

\* The closure of UncheckedEnigmaMachine::decrypt_unchecked applied to one
\* character of the upper-cased text.
decrypt_unchecked_char(machine, pos, letter) ==
    IF ~is_alphabetic(letter)
    THEN [pos |-> pos, out |-> Some(<<letter>>)]
    ELSE LET rotor_a == ShiftedRotors[machine.rotors[1]][machine.ring_settings[1]]
             rotor_b == ShiftedRotors[machine.rotors[2]][machine.ring_settings[2]]
             rotor_c == ShiftedRotors[machine.rotors[3]][machine.ring_settings[3]]
             offset == unchecked_rotate(machine.rotors, pos)
             l1 == plugboard_pass(machine.plugboard, Some(letter))
             l2 == unchecked_rotor_forward(rotor_c, offset[3], l1)
             l3 == unchecked_rotor_forward(rotor_b, offset[2], l2)
             l4 == unchecked_rotor_forward(rotor_a, offset[1], l3)
             l5 == reflector_pass(machine.reflector, l4)
             l6 == unchecked_rotor_backward(rotor_a, offset[1], l5)
             l7 == unchecked_rotor_backward(rotor_b, offset[2], l6)
             l8 == unchecked_rotor_backward(rotor_c, offset[3], l7)
             l9 == plugboard_pass(machine.plugboard, l8)
         IN [pos |-> offset,
             out |-> IF l9.tag = "Some" THEN Some(<<l9.v>>) ELSE Panic]

\* decrypt_unchecked is specified only for a machine "constructed correctly"
\* (its # Safety section): ring settings and positions that are alphabet indices.
constructed_correctly(machine) ==
    /\ \A i \in 1..3 : machine.ring_settings[i] \in 0..25
    /\ \A i \in 1..3 : machine.ring_positions[i] \in 0..25

(***************************************************************************)
(* safe_enigma.rs: impl EnigmaBuilder for anyhow::Result<EnigmaMachine>    *)
(***************************************************************************)
RingError == "Error while setting ring positions when creating Enigma machine"

\* Reflector::try_from(&str): match value.to_lowercase()
Reflector_try_from(value) ==
    LET name == to_lowercase(value)
    IN IF name = <<97>> THEN Ok("A")                               \* "a"
       ELSE IF name = <<98>> THEN Ok("B")                          \* "b"
       ELSE IF name = <<99>> THEN Ok("C")                          \* "c"
       ELSE IF name = <<98, 116, 104, 105, 110>> THEN Ok("BThin")  \* "bthin"
       ELSE IF name = <<99, 116, 104, 105, 110>> THEN Ok("CThin")  \* "cthin"
       ELSE IF name = <<117, 107, 119, 114>> THEN Ok("Ukwr")       \* "ukwr"
       ELSE IF name = <<117, 107, 119, 107>> THEN Ok("Ukwk")       \* "ukwk"
       ELSE Err(<<"Invalid reflector", value>>)

\* Reflector::unchecked_from(&str): case-sensitive, panics otherwise.
Reflector_unchecked_from(value) ==
    IF value = <<65>> THEN Ok("A")                                 \* "A"
    ELSE IF value = <<66>> THEN Ok("B")                            \* "B"
    ELSE IF value = <<67>> THEN Ok("C")                            \* "C"
    ELSE IF value = <<66, 84, 104, 105, 110>> THEN Ok("BThin")     \* "BThin"
    ELSE IF value = <<67, 84, 104, 105, 110>> THEN Ok("CThin")     \* "CThin"
    ELSE IF value = <<85, 75, 87, 82>> THEN Ok("Ukwr")             \* "UKWR"
    ELSE IF value = <<85, 75, 87, 75>> THEN Ok("Ukwk")             \* "UKWK"
    ELSE Panic

\* EnigmaBuilder::rotors: the conversion and its `?` come before self is looked at.
rotors(self, t) ==
    LET r == try_into_rotors(t)
    IN IF r.tag = "Err" THEN Err(<<RingError, r.err>>)
       ELSE IF self.tag = "Ok" THEN Ok([self.v EXCEPT !.rotors = r.v])
       ELSE self

\* EnigmaBuilder::reflector: likewise.
reflector(self, name) ==
    LET r == Reflector_try_from(name)
    IN IF r.tag = "Err" THEN Err(<<RingError, r.err>>)
       ELSE IF self.tag = "Ok" THEN Ok([self.v EXCEPT !.reflector = r.v])
       ELSE self

\* (first - 1, second - 1, third - 1).try_into_alphabet_index() on u8 arguments:
\* with overflow checks a 0 panics, without them it wraps to 255.
ring_indices(t, checks) ==
    IF checks /\ \E i \in 1..3 : t[i] = 0 THEN Panic
    ELSE try_into_alphabet_index(<<u8_sub_one(t[1]), u8_sub_one(t[2]), u8_sub_one(t[3])>>)

\* EnigmaBuilder::ring_settings
ring_settings(self, t, checks) ==
    IF self.tag = "Ok"
    THEN LET r == ring_indices(t, checks)
         IN IF r.tag = "Panic" THEN Panic
            ELSE IF r.tag = "Err" THEN Err(<<RingError, r.err>>)
            ELSE Ok([self.v EXCEPT !.ring_settings = r.v])
    ELSE self

\* EnigmaBuilder::ring_positions
ring_positions(self, t, checks) ==
    IF self.tag = "Ok"
    THEN LET r == ring_indices(t, checks)
         IN IF r.tag = "Panic" THEN Panic
            ELSE IF r.tag = "Err" THEN Err(<<RingError, r.err>>)
            ELSE Ok([self.v EXCEPT !.ring_positions = r.v])
    ELSE self

\* The loop of plugboard(): for each whitespace-separated group, its first two
\* characters are inserted both ways; a group of one character panics on the
\* second chars.next().unwrap().
RECURSIVE plugboard_insert_all(_, _)
plugboard_insert_all(map, mappings) ==
    IF mappings = <<>> THEN Ok(map)
    ELSE LET pair == Head(mappings)
         IN IF Len(pair) < 2 THEN Panic
            ELSE plugboard_insert_all(
                     insert(insert(map, pair[1], pair[2]), pair[2], pair[1]),
                     Tail(mappings))

\* The duplicate check of plugboard(): chars.dedup(); chars.len() != plugboard.len()
plugboard_has_duplicates(plugboard) == Len(dedup(plugboard)) # Len(plugboard)

\* EnigmaBuilder::plugboard
plugboard(self, text) ==
    IF self.tag = "Ok"
    THEN IF plugboard_has_duplicates(text)
         THEN Err(<<"Plugboard contains duplicate characters", text>>)
         ELSE LET r == plugboard_insert_all(EmptyMap, split_whitespace(text))
              IN IF r.tag = "Panic" THEN Panic
                 ELSE Ok([self.v EXCEPT !.plugboard = r.v])
    ELSE self

\* EnigmaBuilder::clear_casing
clear_casing(self) ==
    IF self.tag = "Ok" THEN Ok([self.v EXCEPT !.options.clear_casing = TRUE]) ELSE self

\* EnigmaBuilder::debug
debug(self) ==
    IF self.tag = "Ok" THEN Ok([self.v EXCEPT !.options.debug = TRUE]) ELSE self

(***************************************************************************)
(* unsafe_enigma.rs: impl UncheckedEnigmaBuilder for UncheckedEnigmaMachine*)
(***************************************************************************)
\* UncheckedEnigmaBuilder::rotors
unchecked_rotors(self, t) ==
    LET r == unchecked_into_rotors(t)
    IN IF r.tag = "Panic" THEN Panic ELSE Ok([self.v EXCEPT !.rotors = r.v])

\* UncheckedEnigmaBuilder::reflector
unchecked_reflector(self, name) ==
    LET r == Reflector_unchecked_from(name)
    IN IF r.tag = "Panic" THEN Panic ELSE Ok([self.v EXCEPT !.reflector = r.v])

\* (first - 1, second - 1, third - 1) on u8, stored unvalidated.
unchecked_ring_indices(t, checks) ==
    IF checks /\ \E i \in 1..3 : t[i] = 0 THEN Panic
    ELSE Ok(<<u8_sub_one(t[1]), u8_sub_one(t[2]), u8_sub_one(t[3])>>)

\* UncheckedEnigmaBuilder::ring_positions
unchecked_ring_positions(self, t, checks) ==
    LET r == unchecked_ring_indices(t, checks)
    IN IF r.tag = "Panic" THEN Panic ELSE Ok([self.v EXCEPT !.ring_positions = r.v])

\* UncheckedEnigmaBuilder::ring_settings
unchecked_ring_settings(self, t, checks) ==
    LET r == unchecked_ring_indices(t, checks)
    IN IF r.tag = "Panic" THEN Panic ELSE Ok([self.v EXCEPT !.ring_settings = r.v])

\* UncheckedEnigmaBuilder::plugboard
unchecked_plugboard(self, text) ==
    LET r == plugboard_insert_all(EmptyMap, split_whitespace(text))
    IN IF r.tag = "Panic" THEN Panic ELSE Ok([self.v EXCEPT !.plugboard = r.v])

(***************************************************************************)
(* Inputs enumerated by the model.                                         *)
(***************************************************************************)
\* tests/tests.rs: the plugboard, ciphertext and plaintext of encrypt_and_decrypt
TestPlugboard ==   \* "BY EW FZ GI QM RV UX"
    <<66, 89, 32, 69, 87, 32, 70, 90, 32, 71, 73, 32, 81, 77, 32, 82, 86, 32, 85, 88>>
TestCiphertext ==  \* "KDZVKMNTYQJPHFXI"
    <<75, 68, 90, 86, 75, 77, 78, 84, 89, 81, 74, 80, 72, 70, 88, 73>>
TestPlaintext ==   \* "TOPSECRETMESSAGE"
    <<84, 79, 80, 83, 69, 67, 82, 69, 84, 77, 69, 83, 83, 65, 71, 69>>

\* The seven reflector names of the UncheckedEnigmaBuilder::reflector doc.
ReflectorNames ==
    {<<65>>, <<66>>, <<67>>,                               \* "A", "B", "C"
     <<66, 84, 104, 105, 110>>, <<67, 84, 104, 105, 110>>, \* "BThin", "CThin"
     <<85, 75, 87, 82>>, <<85, 75, 87, 75>>}               \* "UKWR", "UKWK"

\* Characters of the enumerated messages: 'A', 'b', '1'.
TextChars == {65, 98, 49}
Texts == BoundedSeq(TextChars, MaxLen) \cup {TestCiphertext, TestPlaintext}

\* Machines decrypt is run on: built as in tests.rs by
\* new().rotors(..).reflector(..).ring_settings(..).ring_positions(..).plugboard(..)
MachineRotors == {<<1, 2, 3>>, <<6, 7, 8>>}
MachineRingSettings == {<<10, 12, 14>>, <<1, 1, 1>>}
MachineRingPositions == {<<5, 22, 3>>, <<26, 26, 22>>, <<1, 5, 22>>}
MachinePlugboards ==
    {TestPlugboard,
     <<>>,                             \* ""
     <<65, 66, 32, 65, 67>>,           \* "AB AC"
     <<65, 98>>}                       \* "Ab"

\* Arguments of the enumerated builder steps.
StepRotors == {<<1, 2, 3>>, <<9, 9, 9>>, <<1, 0, 3>>}
StepReflectors ==
    {<<66>>, <<98, 116, 104, 105, 110>>, <<85, 75, 87, 75>>, <<90>>}   \* "B", "bthin", "UKWK", "Z"
StepRings == {<<1, 1, 1>>, <<26, 26, 26>>, <<0, 1, 1>>, <<1, 27, 1>>, <<10, 12, 255>>}
StepPlugboards ==
    {<<65, 66, 32, 67, 68>>,           \* "AB CD"
     <<65, 66, 32, 65, 67>>,           \* "AB AC"
     <<65, 65>>,                       \* "AA"
     <<65>>,                           \* "A"
     <<65, 66, 67>>,                   \* "ABC"
     <<65, 66, 32, 32, 67, 68>>}       \* "AB  CD"

(***************************************************************************)
(* State machines.                                                         *)
(***************************************************************************)
Idle ==
    [status |-> "idle", api |-> "none", pass |-> 0, orig |-> <<>>, text |-> <<>>, i |-> 0,
     pos |-> <<0, 0, 0>>, out |-> <<>>,
     ustatus |-> "idle", upos |-> <<0, 0, 0>>, uout |-> <<>>]

\* The chain of tests.rs on the safe builder.
build(r, f, s, p, pb, checks) ==
    plugboard(ring_positions(ring_settings(reflector(rotors(EnigmaMachine_new, r), f), s, checks), p, checks), pb)

\* The same chain on the unchecked builder; a panic ends it.
unchecked_step(self, next) == IF self.tag = "Panic" THEN self ELSE next

unchecked_build(r, f, s, p, pb, checks) ==
    LET m1 == unchecked_rotors(EnigmaMachine_unchecked, r)
        m2 == unchecked_step(m1, unchecked_reflector(m1, f))
        m3 == unchecked_step(m2, unchecked_ring_settings(m2, s, checks))
        m4 == unchecked_step(m3, unchecked_ring_positions(m3, p, checks))
    IN unchecked_step(m4, unchecked_plugboard(m4, pb))

\* Initial states of the decryption machine: both machines built from the
\* same arguments.
\* (No argument of these chains is 0, so no subtraction overflows in either
\* build profile; the profile is the one of `cargo test`.)
Init ==
    /\ overflow_checks = TRUE
    /\ \E r \in MachineRotors, f \in ReflectorNames, s \in MachineRingSettings,
          p \in MachineRingPositions, pb \in MachinePlugboards :
        /\ builder = build(r, f, s, p, pb, overflow_checks)
        /\ ubuilder = unchecked_build(r, f, s, p, pb, overflow_checks)
        /\ call = [op |-> "build", args |-> <<r, f, s, p, pb>>, self |-> EnigmaMachine_new, n |-> 5]
    /\ run = Idle
    /\ ciphertext = <<>>
    /\ cipher_type = NotCalled

\* The setup of decrypt before its loop: Alphabet::new(&rotor_x).unwrap()
decrypt_setup_ok(machine) ==
    \A i \in 1..3 :
        Alphabet_new(ShiftedRotors[machine.rotors[i]][machine.ring_settings[i]]).tag = "Ok"

\* A call of decrypt / decrypt_unchecked begins: the text is upper-cased and
\* the rotor letters start from the ring positions.
begin(api, pass, orig, text) ==
    LET upper == to_uppercase(text)
        ok == decrypt_setup_ok(builder.v)
        uok == ubuilder.tag = "Ok" /\ constructed_correctly(ubuilder.v)
    IN [status |-> IF ~ok THEN "panic" ELSE IF upper = <<>> THEN "done" ELSE "running",
        api |-> api, pass |-> pass, orig |-> orig, text |-> upper, i |-> 0,
        pos |-> builder.v.ring_positions, out |-> <<>>,
        ustatus |-> IF ~uok THEN "none" ELSE IF upper = <<>> THEN "done" ELSE "running",
        upos |-> IF uok THEN ubuilder.v.ring_positions ELSE <<0, 0, 0>>,
        uout |-> <<>>]

\* machine.encrypt(text): calls self.decrypt(text).
Encrypt(text) ==
    /\ builder.tag = "Ok"
    /\ run.status = "idle"
    /\ run' = begin("encrypt", 1, text, text)
    /\ UNCHANGED <<overflow_checks, builder, ubuilder, call, ciphertext, cipher_type>>

\* machine.decrypt(text)
Decrypt(text) ==
    /\ builder.tag = "Ok"
    /\ run.status = "idle"
    /\ run' = begin("decrypt", 1, text, text)
    /\ UNCHANGED <<overflow_checks, builder, ubuilder, call, ciphertext, cipher_type>>

\* machine.decrypt(machine.encrypt(text)): the output of a finished encrypt
\* is decrypted by the same machine.
DecryptOutput ==
    /\ run.status = "done"
    /\ run.api = "encrypt"
    /\ run.pass = 1
    /\ run' = begin("decrypt", 2, run.orig, run.out)
    /\ UNCHANGED <<overflow_checks, builder, ubuilder, call, ciphertext, cipher_type>>

\* One iteration of the per-character closure in both machines.
DecryptChar ==
    /\ run.status = "running"
    /\ LET letter == run.text[run.i + 1]
           r == decrypt_char(builder.v, run.pos, letter)
           last == run.i + 1 = Len(run.text)
           urunning == run.ustatus = "running"
           u == IF urunning THEN decrypt_unchecked_char(ubuilder.v, run.upos, letter)
                ELSE [pos |-> run.upos, out |-> Some(<<>>)]
       IN run' = [run EXCEPT
              !.status = IF r.out.tag = "Panic" THEN "panic" ELSE IF last THEN "done" ELSE "running",
              !.i = run.i + 1,
              !.pos = r.pos,
              !.out = IF r.out.tag = "Panic" THEN run.out ELSE run.out \o r.out.v,
              !.ustatus = IF ~urunning THEN run.ustatus
                          ELSE IF u.out.tag = "Panic" THEN "panic"
                          ELSE IF last THEN "done" ELSE "running",
              !.upos = u.pos,
              !.uout = IF u.out.tag = "Panic" THEN run.uout ELSE run.uout \o u.out.v]
    /\ UNCHANGED <<overflow_checks, builder, ubuilder, call, ciphertext, cipher_type>>

Next ==
    \/ \E text \in Texts : Encrypt(text)
    \/ \E text \in Texts : Decrypt(text)
    \/ DecryptOutput
    \/ DecryptChar

Spec == Init /\ [][Next]_vars

(***************************************************************************)
(* The builder chain, one step at a time, on both builders.                *)
(***************************************************************************)
InitBuilder ==
    /\ overflow_checks \in BOOLEAN
    /\ builder = EnigmaMachine_new
    /\ ubuilder = EnigmaMachine_unchecked
    /\ call = [op |-> "new", args |-> <<>>, self |-> EnigmaMachine_new, n |-> 0]
    /\ run = Idle
    /\ ciphertext = <<>>
    /\ cipher_type = NotCalled

\* A further step can be chained unless the program has panicked.
CanStep ==
    /\ call.n < MaxChain
    /\ builder.tag # "Panic"

\* What every step records: the step, its arguments and the builder it was applied to.
Called(op, args) == [op |-> op, args |-> args, self |-> builder, n |-> call.n + 1]

Rotors(t) ==
    /\ CanStep
    /\ builder' = rotors(builder, t)
    /\ ubuilder' = unchecked_step(ubuilder, unchecked_rotors(ubuilder, t))
    /\ call' = Called("rotors", t)
    /\ UNCHANGED <<overflow_checks, run, ciphertext, cipher_type>>

Reflector(name) ==
    /\ CanStep
    /\ builder' = reflector(builder, name)
    /\ ubuilder' = unchecked_step(ubuilder, unchecked_reflector(ubuilder, name))
    /\ call' = Called("reflector", name)
    /\ UNCHANGED <<overflow_checks, run, ciphertext, cipher_type>>

RingSettings(t) ==
    /\ CanStep
    /\ builder' = ring_settings(builder, t, overflow_checks)
    /\ ubuilder' = unchecked_step(ubuilder, unchecked_ring_settings(ubuilder, t, overflow_checks))
    /\ call' = Called("ring_settings", t)
    /\ UNCHANGED <<overflow_checks, run, ciphertext, cipher_type>>

RingPositions(t) ==
    /\ CanStep
    /\ builder' = ring_positions(builder, t, overflow_checks)
    /\ ubuilder' = unchecked_step(ubuilder, unchecked_ring_positions(ubuilder, t, overflow_checks))
    /\ call' = Called("ring_positions", t)
    /\ UNCHANGED <<overflow_checks, run, ciphertext, cipher_type>>

Plugboard(text) ==
    /\ CanStep
    /\ builder' = plugboard(builder, text)
    /\ ubuilder' = unchecked_step(ubuilder, unchecked_plugboard(ubuilder, text))
    /\ call' = Called("plugboard", text)
    /\ UNCHANGED <<overflow_checks, run, ciphertext, cipher_type>>

\* clear_casing and debug exist on the safe builder only.
ClearCasing ==
    /\ CanStep
    /\ builder' = clear_casing(builder)
    /\ call' = Called("clear_casing", <<>>)
    /\ UNCHANGED <<overflow_checks, ubuilder, run, ciphertext, cipher_type>>

Debug ==
    /\ CanStep
    /\ builder' = debug(builder)
    /\ call' = Called("debug", <<>>)
    /\ UNCHANGED <<overflow_checks, ubuilder, run, ciphertext, cipher_type>>

NextBuilder ==
    \/ \E t \in StepRotors : Rotors(t)
    \/ \E name \in StepReflectors \cup ReflectorNames : Reflector(name)
    \/ \E t \in StepRings : RingSettings(t)
    \/ \E t \in StepRings : RingPositions(t)
    \/ \E text \in StepPlugboards : Plugboard(text)
    \/ ClearCasing
    \/ Debug

SpecBuilder == InitBuilder /\ [][NextBuilder]_vars

(***************************************************************************)
(* cipher-utils: character_set.rs, lib.rs (Analyze), cipher_type.rs        *)
(***************************************************************************)
Range(text) == {text[i] : i \in 1..Len(text)}

\* The characters lo..hi as a string.
Chars(lo, hi) == [i \in 1..(hi - lo + 1) |-> lo + i - 1]

\* The literal "abc...zABC...Z0123456789" of CharacterSet::of.
AlphanumericLiteral == Chars(97, 122) \o Chars(65, 90) \o Chars(48, 57)

\* CharacterSet::of: the characters of the text that occur in the literal.
CharacterSet_of(text) == {c \in Range(text) : c \in Range(AlphanumericLiteral)}

\* CharacterSet::raw: every character of the text.
CharacterSet_raw(text) == Range(text)

\* HashSet::is_superset, as used through Deref by best_match.
is_superset_of(self, other) == other \subseteq self

\* lazy_static character sets
BASE_64 == CharacterSet_raw(AlphanumericLiteral \o <<43, 47>>)
MORSE == CharacterSet_raw(<<45, 46, 47>>)
ALPHANUMERIC == CharacterSet_of(AlphanumericLiteral)
HEX == CharacterSet_of(Chars(48, 57) \o Chars(65, 70) \o Chars(97, 102))
OCTAL == CharacterSet_of(Chars(48, 55))

\* ciphertext.chars().filter(|char| char.is_uppercase()).count()
count_uppercase(text) == Cardinality({i \in 1..Len(text) : is_ascii_uppercase(text[i])})

\* ciphertext.chars().filter(|char| char.is_lowercase()).count()
count_lowercase(text) == Cardinality({i \in 1..Len(text) : is_ascii_lowercase(text[i])})

\* total_letters of index_of_coincidence: the characters that are alphabetic.
count_alphabetic(text) == Cardinality({i \in 1..Len(text) : is_alphabetic(text[i])})

\* The frequency array of index_of_coincidence, indexed 0..25.
letter_frequency(text) ==
    [idx \in 0..25 |->
        Cardinality({i \in 1..Len(text) :
            is_alphabetic(text[i]) /\ to_ascii_lowercase(text[i]) - 97 = idx})]

\* numerator += count * (count - 1) on u32, over frequency[from..25]: for a
\* count of 0 the subtraction overflows, which panics when overflow checks
\* are on and wraps to u32::MAX (times 0, that is 0) when they are off.
RECURSIVE ioc_numerator(_, _, _, _)
ioc_numerator(frequency, from, numerator, checks) ==
    IF from > 25 THEN Ok(numerator)
    ELSE IF frequency[from] = 0
         THEN IF checks THEN Panic
              ELSE ioc_numerator(frequency, from + 1, numerator, checks)
         ELSE ioc_numerator(frequency, from + 1,
                            numerator + frequency[from] * (frequency[from] - 1), checks)

\* Analyze::index_of_coincidence, the f64 result kept as the fraction n/d.
index_of_coincidence(text, checks) ==
    LET total_letters == count_alphabetic(text)
    IN IF total_letters < 2 THEN Ok([n |-> 0, d |-> 1])
       ELSE LET numerator == ioc_numerator(letter_frequency(text), 0, 0, checks)
            IN IF numerator.tag = "Panic" THEN Panic
               ELSE Ok([n |-> numerator.v, d |-> total_letters * (total_letters - 1)])

\* (0.6..0.75).contains(&ioc): 0.6 <= n/d < 0.75.
in_transposition_band(ioc) == 6 * ioc.d <= 10 * ioc.n /\ 100 * ioc.n < 75 * ioc.d

\* best_match with the Hex rule tried before the Octal rule.
best_match_hex_first(text, checks) ==
    LET raw == CharacterSet_raw(text)
        alphanumeric == CharacterSet_of(text)
        capitals == count_uppercase(text)
        lowercase == count_lowercase(text)
        ioc == index_of_coincidence(text, checks)
    IN IF is_superset_of(MORSE, raw) THEN Some("Morse")
       ELSE IF is_superset_of(HEX, raw) THEN Some("Hex")
       ELSE IF is_superset_of(OCTAL, raw) THEN Some("Octal")
       ELSE IF is_superset_of(ALPHANUMERIC, alphanumeric) /\ 10 * capitals < lowercase
            THEN IF ioc.tag = "Panic" THEN Panic
                 ELSE IF in_transposition_band(ioc.v) THEN Some("Transposition")
                 ELSE Some("Substitution")
       ELSE IF is_superset_of(BASE_64, alphanumeric) THEN Some("Base64")
       ELSE None

\* CipherType::best_match
best_match(text, checks) ==
    LET raw == CharacterSet_raw(text)
        alphanumeric == CharacterSet_of(text)
        capitals == count_uppercase(text)
        lowercase == count_lowercase(text)
        ioc == index_of_coincidence(text, checks)
    IN IF is_superset_of(MORSE, raw) THEN Some("Morse")
       ELSE IF is_superset_of(OCTAL, raw) THEN Some("Octal")
       ELSE IF is_superset_of(HEX, raw) THEN Some("Hex")
       ELSE IF is_superset_of(ALPHANUMERIC, alphanumeric) /\ 10 * capitals < lowercase
            THEN IF ioc.tag = "Panic" THEN Panic
                 ELSE IF in_transposition_band(ioc.v) THEN Some("Transposition")
                 ELSE Some("Substitution")
       ELSE IF is_superset_of(BASE_64, alphanumeric) THEN Some("Base64")
       ELSE None

(***************************************************************************)
(* octal/src/lib.rs: OctalCipher                                           *)
(***************************************************************************)
\* write!(accumulator, " {:03o}", current as u8): a space and three octal digits.
octal_code(c) == <<32, 48 + (c \div 64), 48 + ((c \div 8) % 8), 48 + (c % 8)>>

\* The fold of OctalCipher::encrypt.
RECURSIVE octal_fold(_)
octal_fold(plaintext) ==
    IF plaintext = <<>> THEN <<>>
    ELSE octal_code(Head(plaintext)) \o octal_fold(Tail(plaintext))

\* OctalCipher::encrypt: the fold, then .get(1..).unwrap(), which panics on
\* the empty string the empty plaintext folds to.
OctalCipher_encrypt(plaintext) ==
    LET folded == octal_fold(plaintext)
    IN IF Len(folded) < 1 THEN Panic ELSE Ok(Tail(folded))

\* u8::from_str_radix(octal, 8): an optional '+', then one or more digits 0-7
\* whose value fits a u8.
RECURSIVE from_str_radix_8(_, _)
from_str_radix_8(digits, value) ==
    IF digits = <<>> THEN Ok(value)
    ELSE IF Head(digits) \notin 48..55 THEN Err("invalid digit found in string")
    ELSE IF value * 8 + (Head(digits) - 48) > 255 THEN Err("number too large to fit in target type")
    ELSE from_str_radix_8(Tail(digits), value * 8 + (Head(digits) - 48))

u8_from_str_radix_8(octal) ==
    LET digits == IF octal # <<>> /\ Head(octal) = 43 THEN Tail(octal) ELSE octal
    IN IF digits = <<>> THEN Err("cannot parse integer from empty string")
       ELSE from_str_radix_8(digits, 0)

\* The collect of OctalCipher::decrypt: the first error ends it.
RECURSIVE octal_collect(_)
octal_collect(tokens) ==
    IF tokens = <<>> THEN Ok(<<>>)
    ELSE LET code == u8_from_str_radix_8(Head(tokens))
             rest == octal_collect(Tail(tokens))
         IN IF code.tag = "Err" THEN code
            ELSE IF rest.tag = "Err" THEN rest
            ELSE Ok(<<code.v>> \o rest.v)

\* OctalCipher::decrypt
OctalCipher_decrypt(text) == octal_collect(split_whitespace(text))

(***************************************************************************)
(* The classifier: one call of CipherType::best_match on a text, which is  *)
(* either given or the output of OctalCipher::encrypt.                     *)
(***************************************************************************)
\* Characters of the enumerated texts: '-', '.', '/', ' ', '0', '7', '8',
\* 'f', 'g', 'G', '+', '!'.
CipherChars == {45, 46, 47, 32, 48, 55, 56, 102, 103, 71, 43, 33}

\* Characters of the enumerated plaintexts: 'H', 'i', ' '.
PlainChars == {72, 105, 32}

Plaintexts == BoundedSeq(PlainChars, MaxLen)

\* "gggfg", "ggffg", "Ggggggggggg", "gggggggh": longer texts of letters.
LetterTexts ==
    {<<103, 103, 103, 102, 103>>, <<103, 103, 102, 102, 103>>,
     <<71, 103, 103, 103, 103, 103, 103, 103, 103, 103, 103>>,
     <<103, 103, 103, 103, 103, 103, 103, 104>>}

CipherTexts == BoundedSeq(CipherChars, MaxCipherLen) \cup LetterTexts

InitClassify ==
    /\ overflow_checks \in BOOLEAN
    /\ builder = EnigmaMachine_new
    /\ ubuilder = EnigmaMachine_unchecked
    /\ call = [op |-> "new", args |-> <<>>, self |-> EnigmaMachine_new, n |-> 0]
    /\ run = Idle
    /\ ciphertext \in CipherTexts
    /\ cipher_type = NotCalled

\* let ciphertext = OctalCipher::encrypt(plaintext), as in tests::octal.
OctalEncrypt(plaintext) ==
    /\ call.op = "new"
    /\ cipher_type = NotCalled
    /\ call' = [op |-> "OctalCipher::encrypt", args |-> plaintext,
                self |-> OctalCipher_encrypt(plaintext), n |-> 1]
    /\ ciphertext' = IF call'.self.tag = "Ok" THEN call'.self.v ELSE ciphertext
    /\ UNCHANGED <<overflow_checks, builder, ubuilder, run, cipher_type>>

BestMatch ==
    /\ call.self.tag = "Ok"
    /\ cipher_type = NotCalled
    /\ cipher_type' = best_match(ciphertext, overflow_checks)
    /\ UNCHANGED <<overflow_checks, builder, ubuilder, call, run, ciphertext>>

NextClassify ==
    \/ \E plaintext \in Plaintexts : OctalEncrypt(plaintext)
    \/ BestMatch

SpecClassify == InitClassify /\ [][NextClassify]_vars

(***************************************************************************)
(* cipher-utils: frequency.rs, dictionary.rs, score.rs                     *)
(*                                                                         *)
(* An f64 is kept as an integer number of units of 10^-5 (Unit of them     *)
(* make 1.0), divisions rounded down; the NaN that 0.0 / 0.0 yields is a   *)
(* separate value.                                                         *)
(***************************************************************************)
Unit == 100000
F64(v) == [tag |-> "f64", v |-> v]
NaN == [tag |-> "NaN"]

Abs(x) == IF x < 0 THEN -x ELSE x

\* The sum of a sequence of numbers.
RECURSIVE Sum(_)
Sum(values) == IF values = <<>> THEN 0 ELSE Head(values) + Sum(Tail(values))

\* values.iter().fold(0., |a, c| a + c) / values.len() as f64, for a list of
\* numbers: NaN (0.0 / 0.0) for the empty list.
average(values) == IF values = <<>> THEN NaN ELSE F64(Sum(values) \div Len(values))

\* The same fold and division for a list of f64 values: a NaN among them, or
\* the empty list, gives NaN.
f64_average(values) ==
    IF \E i \in 1..Len(values) : values[i].tag = "NaN" THEN NaN
    ELSE average([i \in 1..Len(values) |-> values[i].v])

\* Insertion of x into an ascending list, after the elements equal to it.
RECURSIVE insert_ascending(_, _)
insert_ascending(sorted, x) ==
    IF sorted = <<>> THEN <<x>>
    ELSE IF x < Head(sorted) THEN <<x>> \o sorted
    ELSE <<Head(sorted)>> \o insert_ascending(Tail(sorted), x)

RECURSIVE sort_ascending(_)
sort_ascending(values) ==
    IF values = <<>> THEN <<>>
    ELSE insert_ascending(sort_ascending(SubSeq(values, 1, Len(values) - 1)), values[Len(values)])

reverse(values) == [i \in 1..Len(values) |-> values[Len(values) + 1 - i]]

\* sorted_by(total_cmp).rev()
sorted_descending(values) == reverse(sort_ascending(values))

\* frequency::counts: the count of each character of the lower-cased text.
frequency_counts(text) ==
    LET lower == to_lowercase(text)
    IN [character \in Range(lower) |-> Cardinality({i \in 1..Len(lower) : lower[i] = character})]

\* frequency::of: count as f64 / text.len() as f64 for each character.
frequency_of(text) ==
    LET counts == frequency_counts(text)
    IN [character \in DOMAIN counts |-> (counts[character] * Unit) \div Len(text)]

\* The values of a map, in the order of its keys.
RECURSIVE map_values(_, _)
map_values(map, keys) ==
    IF keys = {} THEN <<>>
    ELSE LET key == Min(keys) IN <<map[key]>> \o map_values(map, keys \ {key})

\* ENGLISH_LOWERCASE_FREQUENCY: 'a' 0.082, 'b' 0.015, ... 'z' 0.00074.
ENGLISH_LOWERCASE_FREQUENCY ==
    LET table == <<8200, 1500, 2800, 4300, 12700, 2200, 2000, 6100, 7000, 150, 770, 4000, 2400, 6700, 7500, 1900, 95, 6000, 6300, 9100, 2800, 980, 2400, 150, 2000, 74>>
    IN [character \in 97..122 |-> table[character - 96]]

\* ENGLISH_FREQUENCY: the same values for both cases of each letter.
ENGLISH_FREQUENCY ==
    [character \in (97..122) \cup (65..90) |->
        ENGLISH_LOWERCASE_FREQUENCY[to_ascii_lowercase(character)]]

\* The values of ENGLISH_BIGRAM_FREQUENCY: "th" 0.0356, "he" 0.0307, ...
ENGLISH_BIGRAM_FREQUENCY ==
    <<3560, 3070, 2450, 2050, 1990, 1850, 1760, 1490, 1450, 1350, 1340, 1340, 1280, 1200, 1170, 1170, 1130, 1120, 1090, 1070, 1050, 1050, 1040, 950, 930, 930, 870, 870, 830, 830, 830, 790, 790, 760, 760, 730, 730, 700, 690, 690, 690, 650>>

\* x / 0.99926
over_099926(x) == x + (x * 74) \div 99926

\* The loop of distribution_score and bigram_distribution_score: the sorted
\* frequencies zipped with the sorted reference values.
differences(frequencies, english_frequencies) ==
    LET n == IF Len(frequencies) < Len(english_frequencies)
             THEN Len(frequencies) ELSE Len(english_frequencies)
    IN [i \in 1..n |-> Unit - over_099926(Abs(frequencies[i] - english_frequencies[i]))]

SortedEnglish == sorted_descending(map_values(ENGLISH_LOWERCASE_FREQUENCY, 97..122))
SortedBigrams == sorted_descending(ENGLISH_BIGRAM_FREQUENCY)

\* frequency::distribution_score
distribution_score(text) ==
    LET frequency_map == frequency_of(text)
        frequencies == sorted_descending(map_values(frequency_map, DOMAIN frequency_map))
    IN average(differences(frequencies, SortedEnglish))

\* frequency::bigram_distribution_score
bigram_distribution_score(text) ==
    LET frequency_map == frequency_of(text)
        frequencies == sorted_descending(map_values(frequency_map, DOMAIN frequency_map))
    IN average(differences(frequencies, SortedBigrams))

\* frequency::character_score
character_score(text) ==
    LET frequency_map == frequency_of(text)
        known == DOMAIN frequency_map \cap DOMAIN ENGLISH_FREQUENCY
        scores == map_values([character \in known |->
                      Unit - over_099926(Abs(frequency_map[character] - ENGLISH_FREQUENCY[character]))],
                      known)
    IN IF Len(scores) = 0 THEN F64(0) ELSE average(scores)

\* WORDS: the lines of data/most_common_words.txt, most common word first.
\* Its first words: "the", "of", "and", "to", "a".
WORDS == <<(<<116, 104, 101>>), (<<111, 102>>), (<<97, 110, 100>>), (<<116, 111>>), (<<97>>)>>

\* dictionary::commonality_score: 1 - position / WORDS.len(), or 0 for a
\* word that is not in the list.
commonality_score(word) ==
    LET found == {i \in 1..Len(WORDS) : WORDS[i] = word}
    IN IF found = {} THEN 0
       ELSE Unit - ((Min(found) - 1) * Unit) \div Len(WORDS)

\* word.chars().filter(|character| character.is_alphabetic()).collect()
RECURSIVE filter_alphabetic(_)
filter_alphabetic(word) ==
    IF word = <<>> THEN <<>>
    ELSE IF is_alphabetic(Head(word)) THEN <<Head(word)>> \o filter_alphabetic(Tail(word))
    ELSE filter_alphabetic(Tail(word))

\* dictionary::average_commonality_score
average_commonality_score(text) ==
    LET tokens == split_whitespace(to_lowercase(text))
        words == [i \in 1..Len(tokens) |-> filter_alphabetic(tokens[i])]
    IN average([i \in 1..Len(words) |-> commonality_score(words[i])])

\* x / 0.9333
over_09333(x) == x + (x * 6670) \div 93330

\* 1. - (index_of_coincidence() - 0.0667).abs() / 0.9333
ioc_score(ioc) == F64(Unit - over_09333(Abs((ioc.n * Unit) \div ioc.d - 6670)))

\* PossiblePlaintext::score
score(text, checks) ==
    LET ioc == index_of_coincidence(text, checks)
        scores == <<ioc_score(ioc.v), character_score(text), distribution_score(text),
                    bigram_distribution_score(text)>>
    IN IF ioc.tag = "Panic" THEN Panic
       ELSE IF 32 \in Range(text)
            THEN f64_average(Append(scores, average_commonality_score(text)))
            ELSE f64_average(scores)

\* The rank f64::total_cmp orders by; a NaN of positive sign is above every
\* number (the sign of the NaN of 0.0 / 0.0 depends on the platform).
total_cmp_key(value) == IF value.tag = "NaN" THEN Unit + 1 ELSE value.v

\* Insertion into a list ascending by key, after the elements of equal key.
RECURSIVE insert_by_key(_, _)
insert_by_key(sorted, x) ==
    IF sorted = <<>> THEN <<x>>
    ELSE IF x.key < Head(sorted).key THEN <<x>> \o sorted
    ELSE <<Head(sorted)>> \o insert_by_key(Tail(sorted), x)

\* Itertools::sorted: a stable sort, ascending by Ord::cmp, that is by score.
RECURSIVE sorted_by_key(_)
sorted_by_key(items) ==
    IF items = <<>> THEN <<>>
    ELSE insert_by_key(sorted_by_key(SubSeq(items, 1, Len(items) - 1)), items[Len(items)])

\* The candidates with the score Ord::cmp computes for each; comparing panics
\* if a score panics, and one candidate alone is never compared.
scored(plaintexts, checks) ==
    LET scores == [i \in 1..Len(plaintexts) |-> score(plaintexts[i], checks)]
    IN IF Len(plaintexts) >= 2 /\ \E i \in 1..Len(scores) : scores[i].tag = "Panic" THEN Panic
       ELSE Ok([i \in 1..Len(plaintexts) |->
                  [text |-> plaintexts[i],
                   key |-> IF Len(plaintexts) >= 2 THEN total_cmp_key(scores[i]) ELSE 0]])

texts_of(items) == [i \in 1..Len(items) |-> items[i].text]

\* PossiblePlaintext::best: Iterator::max, the last of the greatest elements.
best(plaintexts, checks) ==
    LET items == scored(plaintexts, checks)
    IN IF plaintexts = <<>> THEN None
       ELSE IF items.tag = "Panic" THEN Panic
       ELSE Some(sorted_by_key(items.v)[Len(plaintexts)].text)

\* PossiblePlaintext::best_n
best_n(plaintexts, n, checks) ==
    LET items == scored(plaintexts, checks)
        sorted == reverse(sorted_by_key(items.v))
    IN IF n = 0 THEN Err("Attempted to get the best 0 plaintexts; Use a natural number instead.")
       ELSE IF plaintexts = <<>>
            THEN Err("Attempted to get the best n plaintexts of an empty plaintext list.")
       ELSE IF items.tag = "Panic" THEN Panic
       ELSE IF n > Len(sorted)
            THEN IF checks THEN Panic
                 ELSE Err("Error getting best n plaintexts: Index n is out of range")
       ELSE Ok(texts_of(SubSeq(sorted, Len(sorted) - n + 1, Len(sorted))))

(***************************************************************************)
(* The scorer: one call of score, best or best_n.                          *)
(***************************************************************************)
\* "1", "e", "ee", "the a"
Candidates == {<<49>>, <<101>>, <<101, 101>>, <<116, 104, 101, 32, 97>>}

\* Characters of the enumerated scored texts: 'e', 't', ' ', '1'.
ScoreChars == {101, 116, 32, 49}

ScoreTexts == BoundedSeq(ScoreChars, MaxLen) \cup Candidates

InitScore ==
    /\ overflow_checks \in BOOLEAN
    /\ builder = EnigmaMachine_new
    /\ ubuilder = EnigmaMachine_unchecked
    /\ call = [op |-> "new", args |-> <<>>, self |-> EnigmaMachine_new, n |-> 0]
    /\ run = Idle
    /\ ciphertext = <<>>
    /\ cipher_type = NotCalled

Score(text) ==
    /\ call.op = "new"
    /\ call' = [op |-> "score", args |-> text, self |-> score(text, overflow_checks), n |-> 1]
    /\ UNCHANGED <<overflow_checks, builder, ubuilder, run, ciphertext, cipher_type>>

Best(plaintexts) ==
    /\ call.op = "new"
    /\ call' = [op |-> "best", args |-> plaintexts, self |-> best(plaintexts, overflow_checks), n |-> 1]
    /\ UNCHANGED <<overflow_checks, builder, ubuilder, run, ciphertext, cipher_type>>

BestN(plaintexts, n) ==
    /\ call.op = "new"
    /\ call' = [op |-> "best_n", args |-> <<plaintexts, n>>,
                self |-> best_n(plaintexts, n, overflow_checks), n |-> 1]
    /\ UNCHANGED <<overflow_checks, builder, ubuilder, run, ciphertext, cipher_type>>

IndexOfCoincidence(text) ==
    /\ call.op = "new"
    /\ call' = [op |-> "index_of_coincidence", args |-> text,
                self |-> index_of_coincidence(text, overflow_checks), n |-> 1]
    /\ UNCHANGED <<overflow_checks, builder, ubuilder, run, ciphertext, cipher_type>>

NextScore ==
    \/ \E text \in ScoreTexts : IndexOfCoincidence(text)
    \/ \E text \in ScoreTexts : Score(text)
    \/ \E plaintexts \in BoundedSeq(Candidates, MaxCandidates) : Best(plaintexts)
    \/ \E plaintexts \in BoundedSeq(Candidates, MaxCandidates), n \in 0..(MaxCandidates + 1) :
          BestN(plaintexts, n)

SpecScore == InitScore /\ [][NextScore]_vars

(***************************************************************************)
(* cipher-utils/src/alphabet.rs                                            *)
(***************************************************************************)

\* Alphabet::cased: Ok(Alphabet) or the error it bails with.
Alphabet_cased(alphabet) ==
    LET chars == dedup(alphabet)
    IN IF Len(chars) # Len(alphabet)
           THEN Err(<<"Duplicate letter in alphabet", alphabet>>)
       ELSE IF Len(alphabet) # 26
           THEN Err(<<"Invalid alphabet length", alphabet>>)
       ELSE IF \E i \in 1..Len(alphabet) : ~is_alphabetic(alphabet[i])
           THEN Err(<<"Invalid character found in alphabet", alphabet>>)
       ELSE Ok([characters |-> chars, cased |-> TRUE])

\* Alphabet::caseless: the same checks on alphabet.to_uppercase().
Alphabet_caseless(alphabet) ==
    LET upper == to_uppercase(alphabet)
        chars == dedup(upper)
    IN IF Len(chars) # Len(upper)
           THEN Err(<<"Duplicate letter in alphabet", upper>>)
       ELSE IF Len(upper) # 26
           THEN Err(<<"Invalid alphabet length", upper>>)
       ELSE IF \E i \in 1..Len(upper) : ~is_alphabetic(upper[i])
           THEN Err(<<"Invalid character found in alphabet", upper>>)
       ELSE Ok([characters |-> chars, cased |-> FALSE])

\* Iterator::position: the zero-based index of the first match.
position(characters, character) ==
    LET found == {i \in 1..Len(characters) : characters[i] = character}
    IN IF found = {} THEN None
       ELSE Some((CHOOSE i \in found : \A j \in found : i <= j) - 1)

\* A variant of Alphabet::index_of that keeps the zero-based position.
Alphabet_index_of_zero_based(self, character) ==
    position(self.characters,
             IF ~self.cased THEN to_ascii_uppercase(character) ELSE character)

\* Alphabet::index_of: AlphabetIndex(index as u8 + 1) of the first occurrence.
Alphabet_index_of(self, character) ==
    LET found == position(self.characters,
                          IF ~self.cased THEN to_ascii_uppercase(character) ELSE character)
    IN IF found.tag = "None" THEN None ELSE Some(found.v + 1)

\* AlphabetIndex::new: Ok(index) for 1..=26, otherwise the error it bails with.
AlphabetIndex_new(index) ==
    IF index \in 1..26 THEN Ok(index)
    ELSE Err(<<"Alphabet index out of range", index>>)

\* `x as u8`: the low eight bits.
as_u8(x) ==
    IF x >= 0 THEN x % 256
    ELSE LET m == (-x) % 256 IN IF m = 0 THEN 0 ELSE 256 - m

\* i32 `%`: the remainder has the sign of the dividend.
i32_rem(a, b) == IF a >= 0 THEN a % b ELSE -((-a) % b)

\* u8 `+`: panics on overflow when overflow checks are on, wraps otherwise.
u8_add(a, b, checks) ==
    IF a + b > 255 THEN (IF checks THEN Panic ELSE Ok((a + b) % 256))
    ELSE Ok(a + b)

\* Add<u8> for AlphabetIndex: AlphabetIndex((self.0 + rhs) % 26);
\* Add<AlphabetIndex> is the same with rhs.0.
AlphabetIndex_add_u8(self, rhs, checks) ==
    LET sum == u8_add(self, rhs, checks)
    IN IF sum.tag = "Panic" THEN Panic ELSE Ok(sum.v % 26)

\* Add<i32>, Add<u32> and AddAssign<i32> for AlphabetIndex:
\* AlphabetIndex((self.0 + rhs as u8) % 26)
AlphabetIndex_add_i32(self, rhs, checks) == AlphabetIndex_add_u8(self, as_u8(rhs), checks)

\* Sub<u32> for AlphabetIndex: ((self.0 as i32 - rhs as i32 + 26) % 26) as u8;
\* Sub<AlphabetIndex> is the same with rhs.0.
AlphabetIndex_sub_u32(self, rhs) == as_u8(i32_rem(self - rhs + 26, 26))

\* Alphabet::letter_at: characters.get(*(index - 1) as usize).unwrap()
Alphabet_letter_at(self, index) ==
    LET i == AlphabetIndex_sub_u32(index, 1)
    IN IF i < Len(self.characters) THEN Ok(self.characters[i + 1]) ELSE Panic

(***************************************************************************)
(* The alphabets as a state machine: one constructor call, then index_of   *)
(* and letter_at on the alphabet it returned.                              *)
(***************************************************************************)

\* Positions and characters used to vary the 26 letters A-Z.
AlphabetPositions == {1, 2, 3, 26}
AlphabetChars == {65, 66, 90, 97, 122, 49}

\* The string with the character at position p replaced by c.
replaced(alphabet, p, c) == [alphabet EXCEPT ![p] = c]

\* Constructor arguments: A-Z and a-z with up to two characters replaced,
\* one character short, and one character long.
AlphabetStrings ==
    LET bases == {ALPHABET, to_lowercase(ALPHABET)}
        once == {replaced(a, p, c) : a \in bases, p \in AlphabetPositions, c \in AlphabetChars}
        twice == {replaced(a, p, c) : a \in once, p \in AlphabetPositions, c \in AlphabetChars}
    IN bases \cup once \cup twice
         \cup {SubSeq(a, 1, 25) : a \in bases}
         \cup {Append(a, c) : a \in bases, c \in AlphabetChars}

NoLookup == [op |-> "none"]

InitAlphabet ==
    /\ overflow_checks \in BOOLEAN
    /\ builder = EnigmaMachine_new
    /\ ubuilder = EnigmaMachine_unchecked
    /\ call = [op |-> "new", args |-> <<>>, self |-> EnigmaMachine_new, n |-> 0]
    /\ run = NoLookup
    /\ ciphertext = <<>>
    /\ cipher_type = NotCalled

Cased(alphabet) ==
    /\ call.op = "new"
    /\ call' = [op |-> "Alphabet::cased", args |-> alphabet,
                self |-> Alphabet_cased(alphabet), n |-> 1]
    /\ UNCHANGED <<overflow_checks, builder, ubuilder, run, ciphertext, cipher_type>>

Caseless(alphabet) ==
    /\ call.op = "new"
    /\ call' = [op |-> "Alphabet::caseless", args |-> alphabet,
                self |-> Alphabet_caseless(alphabet), n |-> 1]
    /\ UNCHANGED <<overflow_checks, builder, ubuilder, run, ciphertext, cipher_type>>

New(alphabet) ==
    /\ call.op = "new"
    /\ call' = [op |-> "Alphabet::new", args |-> alphabet,
                self |-> Alphabet_new(alphabet), n |-> 1]
    /\ UNCHANGED <<overflow_checks, builder, ubuilder, run, ciphertext, cipher_type>>

\* The characters of the alphabet the constructor returned, if it returned one.
CharactersOfSelf ==
    IF call.op \in {"Alphabet::cased", "Alphabet::caseless"} /\ call.self.tag = "Ok"
        THEN Range(call.self.v.characters)
    ELSE {}

IndexOf(character) ==
    /\ call.op \in {"Alphabet::cased", "Alphabet::caseless"}
    /\ call.self.tag = "Ok"
    /\ run = NoLookup
    /\ run' = [op |-> "index_of", character |-> character,
               index |-> Alphabet_index_of(call.self.v, character)]
    /\ UNCHANGED <<overflow_checks, builder, ubuilder, call, ciphertext, cipher_type>>

LetterAt ==
    /\ run.op = "index_of"
    /\ run.index.tag = "Some"
    /\ run' = [op |-> "letter_at", character |-> run.character, index |-> run.index,
               letter |-> Alphabet_letter_at(call.self.v, run.index.v)]
    /\ UNCHANGED <<overflow_checks, builder, ubuilder, call, ciphertext, cipher_type>>

\* Arguments of AlphabetIndex::new and right-hand sides of the operators.
IndexArguments == {0, 1, 2, 13, 25, 26, 27}
IndexOperands == {0, 1, 2, 25, 26, 27, 53, 255}

IndexNew(index) ==
    /\ call.op = "new"
    /\ call' = [op |-> "AlphabetIndex::new", args |-> index,
                self |-> AlphabetIndex_new(index), n |-> 1]
    /\ UNCHANGED <<overflow_checks, builder, ubuilder, run, ciphertext, cipher_type>>

\* The AlphabetIndex an operator is applied to: one AlphabetIndex::new returned.
HasIndex == call.op = "AlphabetIndex::new" /\ call.self.tag = "Ok" /\ run = NoLookup

AddIndex(rhs) ==
    /\ HasIndex
    /\ run' = [op |-> "Add<AlphabetIndex>", rhs |-> rhs,
               result |-> AlphabetIndex_add_u8(call.self.v, rhs, overflow_checks)]
    /\ UNCHANGED <<overflow_checks, builder, ubuilder, call, ciphertext, cipher_type>>

AddU8(rhs) ==
    /\ HasIndex
    /\ run' = [op |-> "Add<u8>", rhs |-> rhs,
               result |-> AlphabetIndex_add_u8(call.self.v, rhs, overflow_checks)]
    /\ UNCHANGED <<overflow_checks, builder, ubuilder, call, ciphertext, cipher_type>>

AddI32(rhs) ==
    /\ HasIndex
    /\ run' = [op |-> "Add<i32>", rhs |-> rhs,
               result |-> AlphabetIndex_add_i32(call.self.v, rhs, overflow_checks)]
    /\ UNCHANGED <<overflow_checks, builder, ubuilder, call, ciphertext, cipher_type>>

SubIndex(rhs) ==
    /\ HasIndex
    /\ run' = [op |-> "Sub<AlphabetIndex>", rhs |-> rhs,
               result |-> Ok(AlphabetIndex_sub_u32(call.self.v, rhs))]
    /\ UNCHANGED <<overflow_checks, builder, ubuilder, call, ciphertext, cipher_type>>

SubU32(rhs) ==
    /\ HasIndex
    /\ run' = [op |-> "Sub<u32>", rhs |-> rhs,
               result |-> Ok(AlphabetIndex_sub_u32(call.self.v, rhs))]
    /\ UNCHANGED <<overflow_checks, builder, ubuilder, call, ciphertext, cipher_type>>

NextAlphabet ==
    \/ \E alphabet \in AlphabetStrings : Cased(alphabet)
    \/ \E alphabet \in AlphabetStrings : Caseless(alphabet)
    \/ \E alphabet \in AlphabetStrings : New(alphabet)
    \/ \E character \in CharactersOfSelf \cup AlphabetChars : IndexOf(character)
    \/ LetterAt
    \/ \E index \in IndexArguments : IndexNew(index)
    \/ \E rhs \in 1..26 : AddIndex(rhs)
    \/ \E rhs \in IndexOperands : AddU8(rhs)
    \/ \E rhs \in IndexOperands \cup {-1} : AddI32(rhs)
    \/ \E rhs \in 1..26 : SubIndex(rhs)
    \/ \E rhs \in IndexOperands : SubU32(rhs)

SpecAlphabet == InitAlphabet /\ [][NextAlphabet]_vars

(***************************************************************************)
(* The machine of EnigmaMachine::new() and EnigmaMachine::unchecked() with *)
(* no further builder step, beside the machine built step by step with the *)
(* documented default arguments.                                           *)
(***************************************************************************)

\* The map of EnigmaMachine::decrypt over the characters from position i on,
\* with the rotor letters `pos` before them; an unwrap that fails panics.
RECURSIVE decrypt_rest(_, _, _, _)
decrypt_rest(machine, pos, text, i) ==
    IF i > Len(text) THEN Ok(<<>>)
    ELSE LET r == decrypt_char(machine, pos, text[i])
         IN IF r.out.tag = "Panic" THEN Panic
            ELSE LET rest == decrypt_rest(machine, r.pos, text, i + 1)
                 IN IF rest.tag = "Panic" THEN Panic ELSE Ok(r.out.v \o rest.v)

\* EnigmaMachine::decrypt (and encrypt, which calls it) on a whole text.
EnigmaMachine_decrypt(machine, text) ==
    IF ~decrypt_setup_ok(machine) THEN Panic
    ELSE decrypt_rest(machine, machine.ring_positions, to_uppercase(text), 1)

\* The map of UncheckedEnigmaMachine::decrypt_unchecked from position i on.
RECURSIVE decrypt_unchecked_rest(_, _, _, _)
decrypt_unchecked_rest(machine, pos, text, i) ==
    IF i > Len(text) THEN Ok(<<>>)
    ELSE LET r == decrypt_unchecked_char(machine, pos, text[i])
         IN IF r.out.tag = "Panic" THEN Panic
            ELSE LET rest == decrypt_unchecked_rest(machine, r.pos, text, i + 1)
                 IN IF rest.tag = "Panic" THEN Panic ELSE Ok(r.out.v \o rest.v)

\* UncheckedEnigmaMachine::decrypt_unchecked on a whole text.
UncheckedEnigmaMachine_decrypt_unchecked(machine, text) ==
    decrypt_unchecked_rest(machine, machine.ring_positions, to_uppercase(text), 1)

\* new().rotors(1,1,1).reflector("A").ring_settings(1,1,1).ring_positions(1,1,1)
default_build(checks) ==
    ring_positions(
        ring_settings(reflector(rotors(EnigmaMachine_new, <<1, 1, 1>>), <<65>>), <<1, 1, 1>>, checks),
        <<1, 1, 1>>, checks)

\* The same steps on unchecked().
unchecked_default_build(checks) ==
    LET m1 == unchecked_rotors(EnigmaMachine_unchecked, <<1, 1, 1>>)
        m2 == unchecked_step(m1, unchecked_reflector(m1, <<65>>))
        m3 == unchecked_step(m2, unchecked_ring_settings(m2, <<1, 1, 1>>, checks))
    IN unchecked_step(m3, unchecked_ring_positions(m3, <<1, 1, 1>>, checks))

\* Characters of the texts given to the default machines: ' ', '1', 'A', 'Z', 'b'.
DefaultChars == {32, 49, 65, 90, 98}
DefaultTexts == BoundedSeq(DefaultChars, MaxLen) \cup {TestCiphertext, TestPlaintext}

\* One text through the four machines.
default_runs(op, text, checks) ==
    [op |-> op, text |-> text,
     new |-> EnigmaMachine_decrypt(EnigmaMachine_new.v, text),
     built |-> EnigmaMachine_decrypt(default_build(checks).v, text),
     unchecked |-> UncheckedEnigmaMachine_decrypt_unchecked(EnigmaMachine_unchecked.v, text),
     unchecked_built |->
         UncheckedEnigmaMachine_decrypt_unchecked(unchecked_default_build(checks).v, text)]

DefaultEncrypt(text) ==
    /\ run = NoLookup
    /\ run' = default_runs("encrypt", text, overflow_checks)
    /\ UNCHANGED <<overflow_checks, builder, ubuilder, call, ciphertext, cipher_type>>

DefaultDecrypt(text) ==
    /\ run = NoLookup
    /\ run' = default_runs("decrypt", text, overflow_checks)
    /\ UNCHANGED <<overflow_checks, builder, ubuilder, call, ciphertext, cipher_type>>

NextDefault ==
    \/ \E text \in DefaultTexts : DefaultEncrypt(text)
    \/ \E text \in DefaultTexts : DefaultDecrypt(text)

SpecDefault == InitAlphabet /\ [][NextDefault]_vars

(***************************************************************************)
(* ciphers/enigma/enigma-cracker/src/lib.rs                                *)
(***************************************************************************)

\* "BY EW FZ GI MQ RV UX" and "B" of decrypt_enigma.
CrackerPlugboard ==
    <<66, 89, 32, 69, 87, 32, 70, 90, 32, 71, 73, 32, 77, 81, 32, 82, 86, 32, 85, 88>>
CrackerReflector == <<66>>

\* EnigmaMachine::new().plugboard(..).reflector(..).rotors(..)
\*     .ring_positions(..).ring_settings(..)
cracker_machine(pb, f, r, positions, settings, checks) ==
    ring_settings(ring_positions(rotors(reflector(plugboard(EnigmaMachine_new, pb), f), r),
                                 positions, checks),
                  settings, checks)

\* The triples (offset_1, offset_2, offset_3) in the order of the three
\* nested loops; the source runs each loop over 1..=26, the model over
\* 1..MaxRing.
ring_triples ==
    [k \in 1..(MaxRing * MaxRing * MaxRing) |->
        <<((k - 1) \div (MaxRing * MaxRing)) + 1,
          (((k - 1) \div MaxRing) % MaxRing) + 1,
          ((k - 1) % MaxRing) + 1>>]

\* (index_of_coincidence(x) - 0.0667).abs() < (index_of_coincidence(y) - 0.0667).abs()
\* for indices x = n/d and y = n/d.
closer(x, y) == Abs(10000 * x.n - 667 * x.d) * y.d < Abs(10000 * y.n - 667 * y.d) * x.d

\* (distance, (offset_1, offset_2, offset_3)) for the index of coincidence
\* of a decryption, or the panic of its computation.
candidate_of_ioc(ioc, offsets) ==
    IF ioc.tag = "Panic" THEN Panic ELSE Ok([distance |-> ioc.v, settings |-> offsets])

candidate_of_plaintext(plain, offsets, checks) ==
    IF plain.tag = "Panic" THEN Panic
    ELSE candidate_of_ioc(index_of_coincidence(plain.v, checks), offsets)

\* The `?` on the built machine, then the decryption of the ciphertext.
candidate_of_machine(machine, text, offsets, checks) ==
    IF machine.tag # "Ok" THEN machine
    ELSE candidate_of_plaintext(EnigmaMachine_decrypt(machine.v, text), offsets, checks)

\* One iteration of the loop of best_ring_settings: the machine is built with
\* .ring_positions(ring_positions).ring_settings(ring_positions), the
\* ciphertext is decrypted and (distance, (offset_1, offset_2, offset_3)) is
\* pushed.
ring_candidate(f, pb, r, positions, text, offsets, checks) ==
    candidate_of_machine(cracker_machine(pb, f, r, positions, positions, checks),
                         text, offsets, checks)

\* The loop from iteration k on, then min_by(total_cmp): the first candidate
\* of smallest distance; `least` is the smallest so far.
RECURSIVE ring_search(_, _, _, _, _, _, _, _)
\* The loop after iteration k gave the candidate c.
ring_pushed(c, f, pb, r, positions, text, k, least, checks) ==
    IF c.tag # "Ok" THEN c
    ELSE ring_search(f, pb, r, positions, text, k + 1,
                     IF k = 1 \/ closer(c.v.distance, least.distance) THEN c.v ELSE least,
                     checks)

ring_search(f, pb, r, positions, text, k, least, checks) ==
    IF k > Len(ring_triples) THEN Ok(least.settings)
    ELSE ring_pushed(ring_candidate(f, pb, r, positions, text, ring_triples[k], checks),
                     f, pb, r, positions, text, k, least, checks)

\* best_ring_settings
best_ring_settings(f, pb, r, positions, text, checks) ==
    ring_search(f, pb, r, positions, text, 1,
                [distance |-> [n |-> 0, d |-> 1], settings |-> <<>>], checks)

(***************************************************************************)
(* The second stage of the settings search as a state machine: one call of *)
(* best_ring_settings.                                                     *)
(***************************************************************************)

CrackerPositions == {<<1, 1, 1>>, <<1, 2, 1>>, <<5, 22, 3>>, <<26, 26, 22>>}

\* "AAAAAA", "ABABAB", "QQXQQ", "ZZZZ", "A", "" and the ciphertext of tests.rs.
CrackerTexts ==
    {<<65, 65, 65, 65, 65, 65>>, <<65, 66, 65, 66, 65, 66>>, <<81, 81, 88, 81, 81>>,
     <<90, 90, 90, 90>>, <<65>>, <<>>, TestCiphertext}

BestRingSettings(r, positions, text) ==
    /\ call.op = "new"
    /\ call' = [op |-> "best_ring_settings", args |-> <<r, positions, text>>,
                self |-> best_ring_settings(CrackerReflector, CrackerPlugboard, r, positions,
                                            text, overflow_checks),
                n |-> 1]
    /\ UNCHANGED <<overflow_checks, builder, ubuilder, run, ciphertext, cipher_type>>

NextCracker ==
    \E r \in MachineRotors, positions \in CrackerPositions, text \in CrackerTexts :
        BestRingSettings(r, positions, text)

SpecCracker == InitAlphabet /\ [][NextCracker]_vars

(***************************************************************************)
(* ciphers/vigenere/vigenere/src/lib.rs                                    *)
(***************************************************************************)

\* VigenereBuilder::alphabet, key and build: the alphabet is made by
\* Alphabet::caseless and its error is returned by `?`.
Vigenere_build(alphabet, key) ==
    LET made == Alphabet_caseless(alphabet)
    IN IF made.tag = "Err" THEN made
       ELSE Ok([alphabet |-> made.v, key |-> key])

\* String::repeat
RECURSIVE repeat(_, _)
repeat(key, n) == IF n = 0 THEN <<>> ELSE key \o repeat(key, n - 1)

\* The key the closures index: self.key.repeat(text.len() / self.key.len());
\* the division panics for an empty key.
repeated_key(self, text) ==
    IF Len(self.key) = 0 THEN Panic
    ELSE Ok(repeat(self.key, Len(text) \div Len(self.key)))

\* The case of the input character given to the result.
with_case_of(input, result) ==
    IF is_ascii_uppercase(input) THEN to_ascii_uppercase(result)
    ELSE to_ascii_lowercase(result)

\* The closure of Vigenere::encrypt / decrypt mapped over the characters from
\* position i on, with `index` alphabetic characters consumed so far:
\* key_bytes[index] panics past the end of the repeated key, unwrap panics for
\* a character the alphabet lacks.
RECURSIVE Vigenere_map(_, _, _, _, _, _, _)
Vigenere_map(self, text, key_bytes, encrypting, i, index, checks) ==
    IF i > Len(text) THEN Ok(<<>>)
    ELSE IF ~is_alphabetic(text[i]) THEN
        LET rest == Vigenere_map(self, text, key_bytes, encrypting, i + 1, index, checks)
        IN IF rest.tag = "Panic" THEN Panic ELSE Ok(<<text[i]>> \o rest.v)
    ELSE IF index >= Len(key_bytes) THEN Panic
    ELSE
        LET text_index == Alphabet_index_of(self.alphabet, text[i])
            key_index == Alphabet_index_of(self.alphabet, key_bytes[index + 1])
        IN IF text_index.tag = "None" \/ key_index.tag = "None" THEN Panic
           ELSE
             LET first == IF encrypting
                              THEN AlphabetIndex_add_u8(text_index.v, key_index.v, checks)
                              ELSE Ok(AlphabetIndex_sub_u32(text_index.v, key_index.v))
                 second == IF first.tag = "Panic" THEN Panic
                           ELSE IF encrypting THEN Ok(AlphabetIndex_sub_u32(first.v, 1))
                           ELSE AlphabetIndex_add_i32(first.v, 1, checks)
                 letter == IF second.tag = "Panic" THEN Panic
                           ELSE Alphabet_letter_at(self.alphabet, second.v)
                 rest == Vigenere_map(self, text, key_bytes, encrypting, i + 1, index + 1, checks)
             IN IF letter.tag = "Panic" \/ rest.tag = "Panic" THEN Panic
                ELSE Ok(<<with_case_of(text[i], letter.v)>> \o rest.v)

\* Vigenere::encrypt
Vigenere_encrypt(self, plaintext, checks) ==
    LET key_bytes == repeated_key(self, plaintext)
    IN IF key_bytes.tag = "Panic" THEN Panic
       ELSE Vigenere_map(self, plaintext, key_bytes.v, TRUE, 1, 0, checks)

\* Vigenere::decrypt
Vigenere_decrypt(self, cipher_text, checks) ==
    LET key_bytes == repeated_key(self, cipher_text)
    IN IF key_bytes.tag = "Panic" THEN Panic
       ELSE Vigenere_map(self, cipher_text, key_bytes.v, FALSE, 1, 0, checks)

(***************************************************************************)
(* Vigenere as a state machine: build, then one encrypt or decrypt call.   *)
(***************************************************************************)

\* "LEMON", "ATTACKATDAWN", "LXFOPVEFRNHR" and the alphabet of tests::encrypt_decrypt.
LEMON == <<76, 69, 77, 79, 78>>
ATTACKATDAWN == <<65, 84, 84, 65, 67, 75, 65, 84, 68, 65, 87, 78>>
LXFOPVEFRNHR == <<76, 88, 70, 79, 80, 86, 69, 70, 82, 78, 72, 82>>
TestAlphabet == <<65, 89, 67, 68, 87, 90, 73, 72, 71, 74, 75, 76, 81, 78, 79, 80, 77, 86, 83, 84, 88, 82, 69, 85, 66, 70>>

VigenereAlphabets == {ALPHABET, TestAlphabet, SubSeq(ALPHABET, 1, 25)}
VigenereKeys == {LEMON, <<>>, <<65>>, <<66>>, <<76, 69>>, <<90, 49>>}
VigenereTexts ==
    BoundedSeq({65, 97, 90, 32}, MaxLen)
        \cup {ATTACKATDAWN, LXFOPVEFRNHR, SubSeq(ATTACKATDAWN, 1, 10), SubSeq(LXFOPVEFRNHR, 1, 10)}

VigenereBuild(alphabet, key) ==
    /\ call.op = "new"
    /\ call' = [op |-> "Vigenere::build", args |-> <<alphabet, key>>,
                self |-> Vigenere_build(alphabet, key), n |-> 1]
    /\ UNCHANGED <<overflow_checks, builder, ubuilder, run, ciphertext, cipher_type>>

VigenereEncrypt(plaintext) ==
    /\ call.op = "Vigenere::build"
    /\ call.self.tag = "Ok"
    /\ run = NoLookup
    /\ run' = [op |-> "Vigenere::encrypt", text |-> plaintext,
               result |-> Vigenere_encrypt(call.self.v, plaintext, overflow_checks)]
    /\ UNCHANGED <<overflow_checks, builder, ubuilder, call, ciphertext, cipher_type>>

VigenereDecrypt(text) ==
    /\ call.op = "Vigenere::build"
    /\ call.self.tag = "Ok"
    /\ run = NoLookup
    /\ run' = [op |-> "Vigenere::decrypt", text |-> text,
               result |-> Vigenere_decrypt(call.self.v, text, overflow_checks)]
    /\ UNCHANGED <<overflow_checks, builder, ubuilder, call, ciphertext, cipher_type>>

NextVigenere ==
    \/ \E alphabet \in VigenereAlphabets, key \in VigenereKeys : VigenereBuild(alphabet, key)
    \/ \E plaintext \in VigenereTexts : VigenereEncrypt(plaintext)
    \/ \E text \in VigenereTexts : VigenereDecrypt(text)

SpecVigenere == InitAlphabet /\ [][NextVigenere]_vars

(***************************************************************************)
(* ciphers/gronsfeld/gronsfeld/src/lib.rs                                  *)
(***************************************************************************)

\* key_str then self.key.to_string(): the key string is parsed as a u128 and
\* written back in decimal, which drops its leading zeros.
RECURSIVE key_to_string(_)
key_to_string(key) ==
    IF Len(key) > 1 /\ Head(key) = 48 THEN key_to_string(Tail(key)) ELSE key

\* The closure of Gronsfeld::decrypt collected from position i on, with
\* `index` letters consumed: key.chars().nth(index).unwrap() panics past the
\* end of the repeated key; a letter the alphabet lacks is the error returned.
RECURSIVE Gronsfeld_map(_, _, _, _, _)
Gronsfeld_map(alphabet, text, key, i, index) ==
    IF i > Len(text) THEN Ok(<<>>)
    ELSE IF ~is_alphabetic(text[i]) THEN
        LET rest == Gronsfeld_map(alphabet, text, key, i + 1, index)
        IN IF rest.tag = "Ok" THEN Ok(<<text[i]>> \o rest.v) ELSE rest
    ELSE IF index >= Len(key) THEN Panic
    ELSE
        LET alphabet_index == Alphabet_index_of(alphabet, text[i])
        IN IF alphabet_index.tag = "None" THEN Err(<<"Character not in alphabet", text[i]>>)
           ELSE
             LET letter == Alphabet_letter_at(alphabet,
                               AlphabetIndex_sub_u32(alphabet_index.v, key[index + 1] - 48))
                 rest == Gronsfeld_map(alphabet, text, key, i + 1, index + 1)
             IN IF letter.tag = "Panic" THEN Panic
                ELSE IF rest.tag # "Ok" THEN rest
                ELSE Ok(<<IF is_ascii_lowercase(text[i]) THEN to_ascii_lowercase(letter.v)
                          ELSE letter.v>> \o rest.v)

\* Gronsfeld::decrypt of the machine built by .alphabet(alphabet).key_str(key)
Gronsfeld_decrypt(alphabet, key, text) ==
    LET digits == key_to_string(key)
    IN Gronsfeld_map(alphabet, text, repeat(digits, Len(text) \div Len(digits)), 1, 0)

(***************************************************************************)
(* ciphers/gronsfeld/gronsfeld-cracker/src/lib.rs                          *)
(***************************************************************************)

\* Every list, in order, extended by each digit 0..9 it does not hold, in
\* ascending order; the lists are of one length and of different digits.
extend_permutations(prefixes) ==
    IF prefixes = <<>> THEN <<>>
    ELSE LET free(prefix) == SelectSeq(<<0, 1, 2, 3, 4, 5, 6, 7, 8, 9>>,
                                       LAMBDA d : d \notin Range(prefix))
             m == Len(free(prefixes[1]))
         IN [j \in 1..(Len(prefixes) * m) |->
                LET prefix == prefixes[((j - 1) \div m) + 1]
                IN Append(prefix, free(prefix)[((j - 1) % m) + 1])]

\* (0..10).permutations(key_digits).unique(): the lists of key_digits
\* different digits, in lexicographic order.
RECURSIVE permutations(_)
permutations(key_digits) ==
    IF key_digits = 0 THEN <<(<<>>)>>
    ELSE extend_permutations(permutations(key_digits - 1))

\* permutation.iter().map(|digit| digit.to_string()).collect::<String>()
key_of(permutation) == [j \in 1..Len(permutation) |-> 48 + permutation[j]]

\* The pairs pushed by the `for permutation` loop given the result of each
\* decrypt, or the error or panic of the first decrypt that fails.
pushed(keys, plain) ==
    IF \E k \in 1..Len(keys) : plain[k].tag # "Ok"
    THEN plain[CHOOSE k \in 1..Len(keys) :
                   /\ plain[k].tag # "Ok"
                   /\ \A j \in 1..(k - 1) : plain[j].tag = "Ok"]
    ELSE Ok([k \in 1..Len(keys) |-> [key |-> keys[k], text |-> plain[k].v]])

\* The `for permutation` loop over the keys.
brute_force(alphabet, text, keys) ==
    pushed(keys, [k \in 1..Len(keys) |-> Gronsfeld_decrypt(alphabet, keys[k], text)])

\* max_by over the pairs by PossiblePlaintext::cmp: the last pair of highest
\* score.
last_max(items) ==
    LET n == CHOOSE i \in 1..Len(items) :
                 /\ \A j \in 1..Len(items) : items[j].key <= items[i].key
                 /\ \A j \in (i + 1)..Len(items) : items[j].key < items[i].key
    IN items[n]

\* The quality check of the best plaintext: [tag "Return"] with it when its
\* score is above 0.85, [tag "Continue"] when not, a panic of the score.
quality_check(best_plaintext, best_score) ==
    IF best_score.tag = "Panic" THEN Panic
    ELSE IF best_score.tag = "f64" /\ best_score.v * 100 > 85 * Unit
         THEN [tag |-> "Return", v |-> best_plaintext]
    ELSE [tag |-> "Continue"]

\* The max_by over the scored plaintexts and the quality check of its result.
best_of_ranked(ranked, checks) ==
    IF ranked.tag = "Panic" THEN Panic
    ELSE quality_check(last_max(ranked.v).text, score(last_max(ranked.v).text, checks))

\* What follows the `for` loop: the error or panic that ended it, the panic
\* of the unwrap when no plaintext was pushed, else the best plaintext's
\* quality check.
after_brute_force(plaintexts, checks) ==
    IF plaintexts.tag # "Ok" THEN plaintexts
    ELSE IF plaintexts.v = <<>> THEN Panic
    ELSE best_of_ranked(scored(texts_of(plaintexts.v), checks), checks)

\* The keys of one iteration, in the order they are tried.
keys_of(perms) == [k \in 1..Len(perms) |-> key_of(perms[k])]

\* One iteration of the `loop` of GronsfeldCracker::decrypt with known
\* alphabet and no key: [tag "Return"] with the plaintext, [tag "Continue"]
\* when the best score is not above 0.85, or the error or panic that ends it.
try_key_digits(alphabet, text, key_digits, checks) ==
    after_brute_force(brute_force(alphabet, text, keys_of(permutations(key_digits))), checks)

(***************************************************************************)
(* GronsfeldCracker::decrypt as a state machine: the call, then one        *)
(* iteration of its loop per step.                                         *)
(***************************************************************************)

\* Characters of the ciphertexts: ' ', 'B', 'U', 'f', 'i'.
GronsfeldChars == {32, 66, 85, 102, 105}
\* "Uif b" ("The a" under key 1) and "Uig" besides the enumerated texts.
GronsfeldTexts ==
    BoundedSeq(GronsfeldChars, MaxLen) \cup {<<85, 105, 102, 32, 98>>, <<85, 105, 103>>}

CrackerDecrypt(text) ==
    /\ run = NoLookup
    /\ call.op = "new"
    /\ ciphertext' = text
    /\ run' = [op |-> "GronsfeldCracker::decrypt", status |-> "searching", key_digits |-> 1,
               keys |-> {}, result |-> NotCalled]
    /\ UNCHANGED <<overflow_checks, builder, ubuilder, call, cipher_type>>

\* The run after an iteration that ended as r having tried the keys `tried`.
iterated(r, tried) ==
    [run EXCEPT
        !.status = IF r.tag = "Continue" THEN "searching"
                   ELSE IF r.tag = "Return" THEN "returned"
                   ELSE IF r.tag = "Err" THEN "error" ELSE "panic",
        !.key_digits = IF r.tag = "Continue" THEN run.key_digits + 1 ELSE run.key_digits,
        !.keys = IF r.tag \in {"Continue", "Return"} THEN Range(tried) ELSE {},
        !.result = IF r.tag = "Return" THEN Ok(r.v) ELSE r]

TryKeyDigits ==
    /\ run.op = "GronsfeldCracker::decrypt"
    /\ run.status = "searching"
    /\ run.key_digits <= MaxKeyLen
    /\ run' = iterated(try_key_digits(Alphabet_caseless(ALPHABET).v, ciphertext,
                                      run.key_digits, overflow_checks),
                       keys_of(permutations(run.key_digits)))
    /\ UNCHANGED <<overflow_checks, builder, ubuilder, call, ciphertext, cipher_type>>

NextGronsfeld ==
    \/ \E text \in GronsfeldTexts : CrackerDecrypt(text)
    \/ TryKeyDigits

SpecGronsfeld == InitAlphabet /\ [][NextGronsfeld]_vars

(***************************************************************************)
(* ciphers/base64/src/lib.rs                                               *)
(***************************************************************************)

\* CHARACTERS
Base64_CHARACTERS == Chars(65, 90) \o Chars(97, 122) \o Chars(48, 57) \o <<43, 47>>

\* format!("{:06b}", n) for n < 64, as a list of the digits 0 and 1.
six_bits(n) == [j \in 1..6 |-> (n \div (2 ^ (6 - j))) % 2]

\* The closure over one character of a quadruplet: "2" for '=', else the six
\* bits of its position in CHARACTERS, whose unwrap panics for any other
\* character.
base64_bits(character) ==
    IF character = 61 THEN Ok(<<2>>)
    ELSE LET index == position(Base64_CHARACTERS, character)
         IN IF index = None THEN Panic ELSE Ok(six_bits(index.v))

RECURSIVE trim_end_matches_2(_)
trim_end_matches_2(string) ==
    IF string # <<>> /\ string[Len(string)] = 2
    THEN trim_end_matches_2(SubSeq(string, 1, Len(string) - 1)) ELSE string

\* The filter_map over the chunks of 8 of a quadruplet's digits: a chunk
\* that is 8 long once its trailing 2s are trimmed is parsed in base 2, and
\* the unwrap panics when a 2 is left in it.
RECURSIVE base64_bytes(_)
base64_bytes(digits) ==
    IF digits = <<>> THEN Ok(<<>>)
    ELSE LET n == IF Len(digits) < 8 THEN Len(digits) ELSE 8
             string == trim_end_matches_2(SubSeq(digits, 1, n))
             rest == base64_bytes(SubSeq(digits, n + 1, Len(digits)))
         IN IF Len(string) = 8 /\ 2 \in Range(string) THEN Panic
            ELSE IF rest.tag = "Panic" THEN Panic
            ELSE IF Len(string) = 8
                 THEN Ok(<<Sum([j \in 1..8 |-> string[j] * (2 ^ (8 - j))])>> \o rest.v)
            ELSE rest

RECURSIVE base64_join(_)
base64_join(quadruplet) ==
    IF quadruplet = <<>> THEN Ok(<<>>)
    ELSE LET bits == base64_bits(Head(quadruplet))
             rest == base64_join(Tail(quadruplet))
         IN IF bits.tag = "Panic" \/ rest.tag = "Panic" THEN Panic ELSE Ok(bits.v \o rest.v)

RECURSIVE base64_chunks(_)
base64_chunks(characters) ==
    IF characters = <<>> THEN Ok(<<>>)
    ELSE LET n == IF Len(characters) < 4 THEN Len(characters) ELSE 4
             digits == base64_join(SubSeq(characters, 1, n))
             bytes == IF digits.tag = "Panic" THEN Panic ELSE base64_bytes(digits.v)
             rest == base64_chunks(SubSeq(characters, n + 1, Len(characters)))
         IN IF bytes.tag = "Panic" \/ rest.tag = "Panic" THEN Panic ELSE Ok(bytes.v \o rest.v)

\* Base64::decrypt
Base64_decrypt(text) ==
    base64_chunks(SelectSeq(text, LAMBDA character : ~is_whitespace(character)))

(***************************************************************************)
(* cipher-cracker/src/lib.rs: CipherCracker                                *)
(***************************************************************************)

\* GronsfeldCracker::decrypt with known alphabet and no key, from the
\* iteration for key_digits on: its loop ends by a return, an error or a
\* panic; past ten digits there is no permutation and the unwrap panics.
RECURSIVE GronsfeldCracker_decrypt(_, _, _, _)
\* What the loop does after an iteration that ended as r.
after_iteration(r, alphabet, text, key_digits, checks) ==
    IF r.tag = "Continue" THEN GronsfeldCracker_decrypt(alphabet, text, key_digits + 1, checks)
    ELSE IF r.tag = "Return" THEN Ok(r.v)
    ELSE r

GronsfeldCracker_decrypt(alphabet, text, key_digits, checks) ==
    after_iteration(try_key_digits(alphabet, text, key_digits, checks),
                    alphabet, text, key_digits, checks)

\* (0.04..=0.05) matched against ciphertext.index_of_coincidence()
in_gronsfeld_band(ioc) == 4 * ioc.d <= 100 * ioc.n /\ 100 * ioc.n <= 5 * ioc.d

\* plaintext.chars().all(|character| character.is_ascii())
all_ascii(text) == \A i \in 1..Len(text) : text[i] < 128

\* PossiblePlaintext::new(&plaintext).score() < 0.8, false for NaN
below_threshold(value) == value.tag = "f64" /\ value.v * 10 < 8 * Unit

(***************************************************************************)
(* CipherCracker::crack as a state machine.  crack decodes the text once   *)
(* and hands the result to check_for_encryption, whose loop calls crack on *)
(* it again; each nested call ends in the same loop, so the calls form a   *)
(* chain of passes over one current text, and the result of the innermost  *)
(* check is what every enclosing call returns.                             *)
(***************************************************************************)

\* Texts given to crack: "", "061", "101", "110 151", "141 142", "300",
\* "08", "Hi", "QUJD", "SGk=", "ab", "-", ".- -", "?", "0x", "141", "G",
\* "QQ".
CrackTexts ==
    {<<>>, <<48, 54, 49>>, <<49, 48, 49>>, <<49, 49, 48, 32, 49, 53, 49>>,
     <<49, 52, 49, 32, 49, 52, 50>>, <<51, 48, 48>>, <<48, 56>>, <<72, 105>>,
     <<81, 85, 74, 68>>, <<83, 71, 107, 61>>, <<97, 98>>, <<45>>, <<46, 45, 32, 45>>,
     <<63>>, <<48, 120>>, <<49, 52, 49>>, <<71>>, <<81, 81>>}

\* Results of MorseCode::decrypt, whose crate is not in the source tree:
\* "", "A", "AT", "101".
MorsePlaintexts == {<<>>, <<65>>, <<65, 84>>, <<49, 48, 49>>}

Crack(text) ==
    /\ run = NoLookup
    /\ call.op = "new"
    /\ ciphertext' = text
    /\ run' = [op |-> "crack", status |-> "cracking", text |-> text, passes |-> 0,
               branch |-> "none", result |-> NotCalled]
    /\ UNCHANGED <<overflow_checks, builder, ubuilder, call, cipher_type>>

Cracking(type) ==
    /\ run.op = "crack"
    /\ run.status = "cracking"
    /\ run.passes < MaxPasses
    /\ best_match(run.text, overflow_checks) = type

\* The state after a pass that decoded to `decoded` in the branch `type`,
\* entering check_for_encryption, or the todo!() of a non-ASCII result.
decoded_run(type, decoded) ==
    LET first == IF run.passes = 0 THEN type ELSE run.branch
    IN IF decoded.tag = "Ok" /\ all_ascii(decoded.v)
       THEN [run EXCEPT !.status = "checking", !.text = decoded.v,
                        !.passes = run.passes + 1, !.branch = first]
       ELSE [run EXCEPT !.status = IF decoded.tag = "Err" THEN "error" ELSE "panic",
                        !.passes = run.passes + 1, !.branch = first,
                        !.result = IF decoded.tag = "Err" THEN decoded ELSE Panic]

CrackOctal ==
    /\ Cracking(Some("Octal"))
    /\ run' = decoded_run("Octal", OctalCipher_decrypt(run.text))
    /\ UNCHANGED <<overflow_checks, builder, ubuilder, call, ciphertext, cipher_type>>

CrackBase64 ==
    /\ Cracking(Some("Base64"))
    /\ run' = decoded_run("Base64", Base64_decrypt(run.text))
    /\ UNCHANGED <<overflow_checks, builder, ubuilder, call, ciphertext, cipher_type>>

CrackMorse ==
    /\ Cracking(Some("Morse"))
    /\ \E plaintext \in MorsePlaintexts : run' = decoded_run("Morse", Ok(plaintext))
    /\ UNCHANGED <<overflow_checks, builder, ubuilder, call, ciphertext, cipher_type>>

\* The run after the Substitution branch ended as r: it returns what
\* GronsfeldCracker returns, without check_for_encryption; an enclosing
\* check_for_encryption tests it next.
substitution_run(r) ==
    [run EXCEPT
        !.status = IF r.tag = "Ok" THEN (IF run.passes = 0 THEN "returned" ELSE "checking")
                   ELSE IF r.tag = "Err" THEN "error" ELSE "panic",
        !.text = IF r.tag = "Ok" THEN r.v ELSE run.text,
        !.passes = run.passes + 1,
        !.branch = IF run.passes = 0 THEN "Substitution" ELSE run.branch,
        !.result = IF r.tag = "Ok" /\ run.passes > 0 THEN run.result ELSE r]

\* The match on ciphertext.index_of_coincidence(): the Gronsfeld search in
\* the band, todo!() outside it.
crack_substitution(ioc, text, checks) ==
    IF ioc.tag = "Panic" THEN Panic
    ELSE IF ~in_gronsfeld_band(ioc.v) THEN Panic
    ELSE GronsfeldCracker_decrypt(Alphabet_caseless(ALPHABET).v, text, 1, checks)

CrackSubstitution ==
    /\ Cracking(Some("Substitution"))
    /\ run' = substitution_run(crack_substitution(
                  index_of_coincidence(run.text, overflow_checks), run.text, overflow_checks))
    /\ UNCHANGED <<overflow_checks, builder, ubuilder, call, ciphertext, cipher_type>>

\* No cipher type: the error of line 34; Hex and Transposition: todo!();
\* a panic inside best_match.
CrackOther ==
    /\ run.op = "crack"
    /\ run.status = "cracking"
    /\ run.passes < MaxPasses
    /\ LET type == best_match(run.text, overflow_checks)
       IN /\ type \notin {Some("Octal"), Some("Base64"), Some("Morse"), Some("Substitution")}
          /\ run' = [run EXCEPT
                 !.status = IF type = None THEN "error" ELSE "panic",
                 !.passes = run.passes + 1,
                 !.branch = IF run.passes = 0 THEN "other" ELSE run.branch,
                 !.result = IF type = None THEN Err("Unable to identify cipher type.")
                            ELSE Panic]
    /\ UNCHANGED <<overflow_checks, builder, ubuilder, call, ciphertext, cipher_type>>

\* The run after the test of the `while` found the score `value`.
checked_run(value) ==
    [run EXCEPT
        !.status = IF value.tag = "Panic" THEN "panic"
                   ELSE IF below_threshold(value) THEN "cracking" ELSE "returned",
        !.result = IF value.tag = "Panic" THEN Panic
                   ELSE IF below_threshold(value) THEN run.result ELSE Ok(run.text)]

\* The test of the `while` of check_for_encryption on the current text.
CheckForEncryption ==
    /\ run.op = "crack"
    /\ run.status = "checking"
    /\ run' = checked_run(score(run.text, overflow_checks))
    /\ UNCHANGED <<overflow_checks, builder, ubuilder, call, ciphertext, cipher_type>>

NextCrack ==
    \/ \E text \in CrackTexts : Crack(text)
    \/ CrackOctal
    \/ CrackBase64
    \/ CrackMorse
    \/ CrackSubstitution
    \/ CrackOther
    \/ CheckForEncryption

SpecCrack == InitAlphabet /\ [][NextCrack]_vars

(***************************************************************************)
(* hex/src/lib.rs: HexCipher                                               *)
(***************************************************************************)

\* One lower-case hexadecimal digit, as {:x} writes it.
hex_digit(d) == IF d < 10 THEN 48 + d ELSE 87 + d

\* write!(accumulator, " {:03x}", current as u8): a space and the hexadecimal
\* code padded with zeros to three digits.
hex_code(c) == <<32, 48, hex_digit(c \div 16), hex_digit(c % 16)>>

\* The fold of HexCipher::encrypt.
RECURSIVE hex_fold(_)
hex_fold(plaintext) ==
    IF plaintext = <<>> THEN <<>>
    ELSE hex_code(Head(plaintext)) \o hex_fold(Tail(plaintext))

\* HexCipher::encrypt: the fold, then .get(1..).unwrap().
HexCipher_encrypt(plaintext) ==
    LET folded == hex_fold(plaintext)
    IN IF Len(folded) < 1 THEN Panic ELSE Ok(Tail(folded))

\* HexCipher::decrypt: split_whitespace, then u8::from_str_radix(octal, 8) on
\* each group; the first error ends the collect.
HexCipher_decrypt(text) == octal_collect(split_whitespace(text))

(***************************************************************************)
(* HexCipher as a state machine: encrypt, then decrypt of what it wrote.   *)
(***************************************************************************)

\* Characters of the plaintexts: BEL, ' ', 'A', 'H', 'i'.
HexChars == {7, 32, 65, 72, 105}

HexEncrypt(plaintext) ==
    /\ call.op = "new"
    /\ call' = [op |-> "HexCipher::encrypt", args |-> plaintext,
                self |-> HexCipher_encrypt(plaintext), n |-> 1]
    /\ UNCHANGED <<overflow_checks, builder, ubuilder, run, ciphertext, cipher_type>>

HexDecrypt ==
    /\ call.op = "HexCipher::encrypt"
    /\ call.self.tag = "Ok"
    /\ run = NoLookup
    /\ run' = [op |-> "HexCipher::decrypt", text |-> call.self.v,
               result |-> HexCipher_decrypt(call.self.v)]
    /\ UNCHANGED <<overflow_checks, builder, ubuilder, call, ciphertext, cipher_type>>

NextHex ==
    \/ \E plaintext \in BoundedSeq(HexChars, MaxLen) : HexEncrypt(plaintext)
    \/ HexDecrypt

SpecHex == InitAlphabet /\ [][NextHex]_vars

(***************************************************************************)
(* Properties of the Enigma machine (specification Spec).                  *)
(***************************************************************************)
IsLetters(text) == \A i \in 1..Len(text) : is_alphabetic(text[i])

\* The arguments of tests.rs: rotors (1,2,3), reflector "B", ring settings
\* (10,12,14), ring positions (5,22,3), plugboard "BY EW FZ GI QM RV UX".
TestArgs == <<(<<1, 2, 3>>), (<<66>>), (<<10, 12, 14>>), (<<5, 22, 3>>), TestPlugboard>>

\* C1: for every machine the safe builder returns as Ok and every text T of
\* letters only, decrypt(encrypt(T)) is T in upper case (encrypt is decrypt,
\* so encrypt(T) = decrypt(T)).
C1_RoundTrip ==
    (/\ builder.tag = "Ok"
     /\ run.status = "done"
     /\ run.pass = 2
     /\ IsLetters(run.orig))
        => run.out = to_uppercase(run.orig)

\* C2: the machine of tests.rs decrypts "KDZVKMNTYQJPHFXI" to
\* "TOPSECRETMESSAGE" and encrypts "TOPSECRETMESSAGE" to "KDZVKMNTYQJPHFXI".
C2_TestVector ==
    (/\ call.args = TestArgs
     /\ run.pass = 1
     /\ run.status # "idle")
        => /\ run.status # "panic"
           /\ (run.status = "done" /\ run.api = "decrypt" /\ run.orig = TestCiphertext)
                => run.out = TestPlaintext
           /\ (run.status = "done" /\ run.api = "encrypt" /\ run.orig = TestPlaintext)
                => run.out = TestCiphertext

C2_Witness ==
    /\ call.args = TestArgs
    /\ builder.tag = "Ok"
    /\ run.status = "done"
    /\ run.api = "decrypt"
    /\ run.pass = 1
    /\ run.orig = TestCiphertext
    /\ run.out = TestPlaintext

\* C3: no letter is encrypted or decrypted into itself: at every position the
\* output holds so far, a letter of the upper-cased input differs from the
\* output character.
C3_NoLetterIntoItself ==
    (builder.tag = "Ok" /\ run.status \in {"running", "done"})
        => \A i \in 1..Len(run.out) :
              is_alphabetic(run.text[i]) => run.out[i] # run.text[i]

\* C4: each of the 7 reflector tables has exactly 26 entries, the letters
\* A-Z, and is an involution without fixed points; the machine's reflector is
\* one of them.
C4_ReflectorsAreInvolutions ==
    /\ builder.tag = "Ok" => builder.v.reflector \in Reflectors
    /\ Cardinality(Reflectors) = 7
    /\ \A name \in Reflectors :
          LET map == Reflector_alphabet(name)
          IN /\ Cardinality(DOMAIN map) = 26
             /\ DOMAIN map = {ALPHABET[i] : i \in 1..26}
             /\ \A x \in DOMAIN map :
                   /\ map[x] \in DOMAIN map
                   /\ map[map[x]] = x
                   /\ map[x] # x

C4_Witness ==
    /\ builder.tag = "Ok"
    /\ builder.v.reflector = "Ukwk"
    /\ run.status = "done"
    /\ \E i \in 1..Len(run.text) : is_alphabetic(run.text[i])

\* A plugboard of disjoint uppercase letter pairs: groups of two uppercase
\* letters separated by single spaces, no letter twice.
IsDisjointUppercasePairs(text) ==
    /\ \A i \in 1..Len(text) : is_ascii_uppercase(text[i]) \/ text[i] = 32
    /\ \A i \in 1..Len(text) : text[i] = 32 => (i % 3 = 0 /\ i < Len(text))
    /\ \A i \in 1..Len(text) : i % 3 # 0 => is_ascii_uppercase(text[i])
    /\ Len(text) % 3 # 1
    /\ \A i, j \in 1..Len(text) : (i # j /\ text[i] = text[j]) => text[i] = 32

\* A valid configuration: the arguments both builders are given.
ValidConfiguration ==
    /\ call.op = "build"
    /\ \A i \in 1..3 : call.args[1][i] \in 1..8
    /\ call.args[2] \in ReflectorNames
    /\ \A i \in 1..3 : call.args[3][i] \in 1..26
    /\ \A i \in 1..3 : call.args[4][i] \in 1..26
    /\ IsDisjointUppercasePairs(call.args[5])

\* C5: for a valid configuration and every ASCII text, decrypt_unchecked
\* returns the string decrypt returns, and both machines hold the same rotor
\* positions after every character.
C5_UncheckedEquivalent ==
    ValidConfiguration
        => /\ builder.tag = "Ok"
           /\ ubuilder.tag = "Ok"
           /\ run.status # "idle"
                => /\ run.status \in {"running", "done"}
                   /\ run.ustatus = run.status
                   /\ run.uout = run.out
                   /\ run.upos = run.pos

C5_Witness ==
    /\ ValidConfiguration
    /\ call.args[5] # <<>>
    /\ call.args[1] = <<6, 7, 8>>
    /\ run.status = "done"
    /\ run.ustatus = "done"
    /\ run.orig = <<98, 49>>
    /\ run.uout = run.out
    /\ Len(run.uout) = 2
    /\ run.uout # run.text
    /\ run.upos # ubuilder.v.ring_positions

(***************************************************************************)
(* Properties of the safe builder chain (specification SpecBuilder).       *)
(***************************************************************************)
RingSteps == {"ring_settings", "ring_positions"}

\* The field a ring step stores into.
RingField(machine, op) ==
    IF op = "ring_settings" THEN machine.ring_settings ELSE machine.ring_positions

\* C6: ring_settings(a,b,c) and ring_positions(a,b,c) return an error value,
\* neither a panic nor a machine, when one of a, b, c is outside [1,26]
\* (0 included), and return Ok with the validated indices a-1, b-1, c-1
\* stored when all three are inside.
C6_RingOutOfRangeIsError ==
    (call.op \in RingSteps /\ call.self.tag = "Ok")
        => IF \E i \in 1..3 : call.args[i] \notin 1..26
           THEN builder.tag = "Err"
           ELSE /\ builder.tag = "Ok"
                /\ RingField(builder.v, call.op) = [i \in 1..3 |-> call.args[i] - 1]

\* Some letter occurs more than once anywhere in the plugboard string.
HasRepeatedLetter(text) ==
    \E i, j \in 1..Len(text) : i < j /\ is_alphabetic(text[i]) /\ text[i] = text[j]

\* The plugboard map is a symmetric pairing.
IsSymmetricPairing(map) ==
    \A x \in DOMAIN map :
        /\ map[x] \in DOMAIN map
        /\ map[map[x]] = x
        /\ map[x] # x

\* C7: plugboard(s) returns an error whenever a letter occurs more than once
\* anywhere in s, so the plugboard of every machine returned as Ok is a
\* symmetric pairing.
C7_PlugboardRejectsRepeatedLetter ==
    /\ (call.op = "plugboard" /\ call.self.tag = "Ok" /\ HasRepeatedLetter(call.args))
          => builder.tag = "Err"
    /\ builder.tag = "Ok" => IsSymmetricPairing(builder.v.plugboard)

\* A whitespace-separated list of groups of exactly two letters.
IsListOfPairs(text) ==
    \A i \in 1..Len(split_whitespace(text)) :
        LET group == split_whitespace(text)[i]
        IN Len(group) = 2 /\ is_alphabetic(group[1]) /\ is_alphabetic(group[2])

\* C8: plugboard(s) returns an error value, neither a panic nor an accepted
\* machine, whenever s is not a whitespace-separated list of groups of exactly
\* two letters.
C8_PlugboardRejectsMalformed ==
    (call.op = "plugboard" /\ call.self.tag = "Ok" /\ ~IsListOfPairs(call.args))
        => builder.tag = "Err"

\* C9: once a step has returned an error, every later step returns that same
\* first error whatever its own arguments.
C9_FirstErrorPropagates ==
    (call.n > 0 /\ call.self.tag = "Err") => builder = call.self

(***************************************************************************)
(* Properties of the classifier (specification SpecClassify).              *)
(***************************************************************************)
\* C10: best_match returns Morse for every text whose characters are all
\* among '-', '.', '/' and whitespace.
C10_MorseCharactersGiveMorse ==
    (/\ cipher_type # NotCalled
     /\ \A i \in 1..Len(ciphertext) : ciphertext[i] \in {45, 46, 47} \/ is_whitespace(ciphertext[i]))
        => cipher_type = Some("Morse")

\* C11: best_match returns Octal for every non-empty text of digits 0-7
\* only: the Octal rule is tried before Hex and Base64, so such a text is
\* never classified Hex or Base64.
C11_OctalDigitsGiveOctal ==
    (/\ cipher_type # NotCalled
     /\ ciphertext # <<>>
     /\ \A i \in 1..Len(ciphertext) : ciphertext[i] \in 48..55)
        => cipher_type = Some("Octal")

C11_Witness ==
    /\ call.op = "new"
    /\ ciphertext = <<48, 55>>
    /\ cipher_type = Some("Octal")

\* C12: for every ASCII plaintext P of at least two characters,
\* OctalCipher::encrypt(P) is classified Octal by best_match (and
\* OctalCipher::decrypt then recovers P from it).
C12_OctalCiphertextIsOctal ==
    (/\ call.op = "OctalCipher::encrypt"
     /\ Len(call.args) >= 2
     /\ cipher_type # NotCalled)
        => /\ cipher_type = Some("Octal")
           /\ OctalCipher_decrypt(ciphertext) = Ok(call.args)

\* The index of coincidence of the text, as a fraction, without the u32
\* arithmetic: sum of count * (count - 1) over total * (total - 1).
LettersOutsideBand(text) ==
    LET ioc == index_of_coincidence(text, FALSE).v
    IN ~in_transposition_band(ioc)

\* C13: best_match returns Substitution for every text made only of letters,
\* at least one of them outside A-F, whose index of coincidence lies outside
\* the transposition band, whatever the case of the letters.
C13_LettersGiveSubstitution ==
    (/\ cipher_type # NotCalled
     /\ ciphertext # <<>>
     /\ IsLetters(ciphertext)
     /\ \E i \in 1..Len(ciphertext) : to_ascii_uppercase(ciphertext[i]) \notin 65..70
     /\ LettersOutsideBand(ciphertext))
        => cipher_type = Some("Substitution")

\* None of the rules 1-5 of the classifier applies to the text: its characters
\* are not all Morse characters, octal digits, hex digits or Base64
\* characters, and its upper-case letters are not below 10% of its lower-case
\* letters.
NoRuleApplies(text) ==
    /\ \E i \in 1..Len(text) : text[i] \notin {45, 46, 47} /\ ~is_whitespace(text[i])
    /\ \E i \in 1..Len(text) : text[i] \notin 48..55
    /\ \E i \in 1..Len(text) : text[i] \notin (48..57) \cup (65..70) \cup (97..102)
    /\ ~(10 * count_uppercase(text) < count_lowercase(text))
    /\ \E i \in 1..Len(text) :
          text[i] \notin (48..57) \cup (65..90) \cup (97..122) \cup {43, 47}

\* C14: best_match returns None for every text that satisfies none of the
\* rules 1-5, such as a mixed-case text holding a '!'.
C14_NoRuleGivesNone ==
    (cipher_type # NotCalled /\ NoRuleApplies(ciphertext)) => cipher_type = None

(***************************************************************************)
(* Properties of the scorer (specification SpecScore).                     *)
(***************************************************************************)
\* C15: best_n(candidates, n) returns an error value, never a panic, when
\* n = 0, when candidates is empty, or when n exceeds the number of
\* candidates.
C15_BestNRejectsBadN ==
    (/\ call.op = "best_n"
     /\ \/ call.args[2] = 0
        \/ call.args[1] = <<>>
        \/ call.args[2] > Len(call.args[1]))
        => call.self.tag = "Err"

\* The scores of a list of texts, as total_cmp ranks them.
KeysOf(texts) == [i \in 1..Len(texts) |-> total_cmp_key(score(texts[i], FALSE))]

\* C16: for 1 <= n <= number of candidates, best_n returns exactly n texts,
\* their scores are the n highest scores of the candidates, from highest to
\* lowest.
C16_BestNReturnsTopN ==
    (/\ call.op = "best_n"
     /\ 1 <= call.args[2]
     /\ call.args[2] <= Len(call.args[1]))
        => /\ call.self.tag = "Ok"
           /\ Len(call.self.v) = call.args[2]
           /\ KeysOf(call.self.v) = SubSeq(sorted_descending(KeysOf(call.args[1])), 1, call.args[2])

\* C17: score returns a number in [0, 1] for every text, the empty string,
\* a text of spaces and a text without letters included.
C17_ScoreInUnitInterval ==
    call.op = "score"
        => /\ call.self.tag = "f64"
           /\ 0 <= call.self.v
           /\ call.self.v <= Unit

\* The letters of the text, lower-cased.
LettersOf(text) == {to_ascii_lowercase(text[i]) : i \in {j \in 1..Len(text) : is_alphabetic(text[j])}}

\* C18: index_of_coincidence completes without arithmetic overflow and
\* returns 0.0 for a string with fewer than two letters and 1.0 for a string
\* that is one letter repeated two or more times.
C18_IndexOfCoincidenceCompletes ==
    call.op = "index_of_coincidence"
        => /\ call.self.tag = "Ok"
           /\ count_alphabetic(call.args) < 2 => call.self.v.n = 0
           /\ (/\ Len(call.args) >= 2
               /\ IsLetters(call.args)
               /\ Cardinality(LettersOf(call.args)) = 1)
                 => call.self.v.n = call.self.v.d

(***************************************************************************)
(* Properties of the alphabets (specification SpecAlphabet).               *)
(***************************************************************************)

\* The string is exactly 26 alphabetic characters, none of them repeated.
IsProperAlphabet(alphabet) ==
    /\ Len(alphabet) = 26
    /\ IsLetters(alphabet)
    /\ \A i, j \in 1..Len(alphabet) : alphabet[i] = alphabet[j] => i = j

\* The symbols held by the value a constructor returned.
SymbolsOf(op, v) == IF op = "Alphabet::new" THEN v ELSE v.characters

\* C19: Alphabet::cased, Alphabet::caseless and the Enigma simulator's
\* Alphabet::new return an error unless the string (upper-cased by caseless)
\* is exactly 26 alphabetic characters with none repeated anywhere, so every
\* Alphabet they return holds 26 pairwise distinct symbols.
C19_ConstructorsRejectRepeats ==
    call.op \in {"Alphabet::cased", "Alphabet::caseless", "Alphabet::new"} =>
        LET given == IF call.op = "Alphabet::caseless" THEN to_uppercase(call.args)
                     ELSE call.args
        IN /\ ~IsProperAlphabet(given) => call.self.tag = "Err"
           /\ call.self.tag = "Ok" => IsProperAlphabet(SymbolsOf(call.op, call.self.v))

\* C20: for every alphabet A returned by cased or caseless and every
\* character c in A, index_of(c) finds an index and letter_at of that index
\* is c again, the 26th character (index 26) included.
C20_IndexRoundTrip ==
    (run.op \in {"index_of", "letter_at"}
        /\ run.character \in Range(call.self.v.characters)) =>
            /\ run.index.tag = "Some"
            /\ run.op = "letter_at" => run.letter = Ok(run.character)

\* C20 witness: letter_at has answered for the 26th character of a caseless
\* alphabet, whose index is 26.
C20_Witness ==
    /\ call.op = "Alphabet::caseless"
    /\ run.op = "letter_at"
    /\ run.character = call.self.v.characters[26]
    /\ run.index = Some(26)
    /\ run.letter = Ok(run.character)

\* The operators of AlphabetIndex the model applies.
IndexOperators == {"Add<AlphabetIndex>", "Add<u8>", "Add<i32>", "Sub<AlphabetIndex>", "Sub<u32>"}

\* C21: every AlphabetIndex value of cipher-utils is in 1..26: the ones
\* AlphabetIndex::new and Alphabet::index_of return, and every result of the
\* overloaded +, += and - applied to such a value.
C21_AlphabetIndexInRange ==
    /\ (call.op = "AlphabetIndex::new" /\ call.self.tag = "Ok") => call.self.v \in 1..26
    /\ (run.op \in {"index_of", "letter_at"} /\ run.index.tag = "Some") => run.index.v \in 1..26
    /\ (run.op \in IndexOperators /\ run.result.tag = "Ok") => run.result.v \in 1..26

(***************************************************************************)
(* Properties of Vigenere (specification SpecVigenere).                    *)
(***************************************************************************)

\* The machine built with the alphabet A-Z and the key "LEMON".
LemonMachine == call.op = "Vigenere::build" /\ call.args = <<ALPHABET, LEMON>>

\* C22: Vigenere built with the alphabet A-Z and the key "LEMON" encrypts
\* "ATTACKATDAWN" to "LXFOPVEFRNHR" and decrypts "LXFOPVEFRNHR" to
\* "ATTACKATDAWN"; both calls complete.
C22_LemonVector ==
    /\ (LemonMachine /\ run.op = "Vigenere::encrypt" /\ run.text = ATTACKATDAWN)
          => run.result = Ok(LXFOPVEFRNHR)
    /\ (LemonMachine /\ run.op = "Vigenere::decrypt" /\ run.text = LXFOPVEFRNHR)
          => run.result = Ok(ATTACKATDAWN)

(***************************************************************************)
(* Properties of HexCipher (specification SpecHex).                        *)
(***************************************************************************)

\* C23: HexCipher::decrypt(HexCipher::encrypt(P)) is Ok(P) for every
\* non-empty ASCII plaintext P.
C23_HexRoundTrip ==
    (run.op = "HexCipher::decrypt" /\ call.args # <<>>) => run.result = Ok(call.args)

(***************************************************************************)
(* Properties of the default machines (specification SpecDefault).         *)
(***************************************************************************)

\* C24: EnigmaMachine::new() with no further step encrypts every text like
\* new().rotors(1,1,1).reflector("A").ring_settings(1,1,1).ring_positions(1,1,1),
\* and EnigmaMachine::unchecked() like the same steps on the unchecked builder.
C24_DefaultIsDocumentedMachine ==
    run.op \in {"encrypt", "decrypt"} =>
        /\ run.new = run.built
        /\ run.unchecked = run.unchecked_built

(***************************************************************************)
(* Rotor stepping (specification Spec).                                    *)
(***************************************************************************)

\* The zero-based positions at which a rotor has a notch.
NotchPositions(rotor) == {notches(rotor)[i] - 65 : i \in 1..Len(notches(rotor))}

\* A position advanced by one, mod 26.
Advanced(p) == (p + 1) % 26

\* The closure of decrypt runs on an alphabetic character: a keypress.
Keypress ==
    /\ run.status = "running"
    /\ run'.i = run.i + 1
    /\ is_alphabetic(run.text[run.i + 1])

\* The closure of decrypt runs on a character that is not alphabetic.
OtherCharacter ==
    /\ run.status = "running"
    /\ run'.i = run.i + 1
    /\ ~is_alphabetic(run.text[run.i + 1])

\* C25: on every keypress the third rotor advances by one mod 26; if it was
\* at a notch the second advances, and the first too iff the second was at a
\* notch; if the third was not at a notch but the second is, the second and
\* first both advance; otherwise they stay. All positions stay in 0..25.
C25_Stepping ==
    [][Keypress =>
        LET p == run.pos
            q == run'.pos
            third_at_notch == p[3] \in NotchPositions(builder.v.rotors[3])
            second_at_notch == p[2] \in NotchPositions(builder.v.rotors[2])
        IN /\ q[3] = Advanced(p[3])
           /\ third_at_notch =>
                 /\ q[2] = Advanced(p[2])
                 /\ q[1] = IF second_at_notch THEN Advanced(p[1]) ELSE p[1]
           /\ (~third_at_notch /\ second_at_notch) =>
                 /\ q[2] = Advanced(p[2])
                 /\ q[1] = Advanced(p[1])
           /\ (~third_at_notch /\ ~second_at_notch) =>
                 /\ q[2] = p[2]
                 /\ q[1] = p[1]
           /\ \A i \in 1..3 : q[i] \in 0..25]_vars

\* C25 witness: rotors I, II, III at "A", "E", "V" (third and second both at
\* their notch) after one keypress: all three have advanced.
C25_Witness ==
    /\ builder.v.rotors = <<1, 2, 3>>
    /\ builder.v.ring_positions = <<0, 4, 21>>
    /\ run.i = 1
    /\ is_alphabetic(run.text[1])
    /\ run.pos = <<1, 5, 22>>

\* C26: in both machines the first rotor advances on a keypress exactly when
\* the second rotor is at one of its notches just before it, and then the
\* second advances too, so that it is not at a notch before the next
\* keypress; a character that is not alphabetic advances no rotor.
C26_FirstRotorCarry ==
    [][/\ Keypress =>
            LET second_at_notch == run.pos[2] \in NotchPositions(builder.v.rotors[2])
            IN /\ (run'.pos[1] # run.pos[1]) <=> second_at_notch
               /\ second_at_notch =>
                     /\ run'.pos[1] = Advanced(run.pos[1])
                     /\ run'.pos[2] = Advanced(run.pos[2])
                     /\ run'.pos[2] \notin NotchPositions(builder.v.rotors[2])
       /\ (Keypress /\ run.ustatus = "running") =>
            LET second_at_notch == run.upos[2] \in NotchPositions(ubuilder.v.rotors[2])
            IN /\ (run'.upos[1] # run.upos[1]) <=> second_at_notch
               /\ second_at_notch =>
                     /\ run'.upos[1] = Advanced(run.upos[1])
                     /\ run'.upos[2] = Advanced(run.upos[2])
                     /\ run'.upos[2] \notin NotchPositions(ubuilder.v.rotors[2])
       /\ OtherCharacter => (run'.pos = run.pos /\ run'.upos = run.upos)]_vars

\* C26 witness: two keypresses from a start with the second rotor at a notch
\* and the third not: the first and second rotors advanced once, in both
\* machines.
C26_Witness ==
    /\ builder.v.ring_positions[2] \in NotchPositions(builder.v.rotors[2])
    /\ builder.v.ring_positions[3] \notin NotchPositions(builder.v.rotors[3])
    /\ run.i = 2
    /\ is_alphabetic(run.text[1]) /\ is_alphabetic(run.text[2])
    /\ run.pos[1] = Advanced(builder.v.ring_positions[1])
    /\ run.pos[2] = Advanced(builder.v.ring_positions[2])
    /\ run.ustatus \in {"running", "done"}
    /\ run.upos = run.pos

(***************************************************************************)
(* The transposition band (specification SpecClassify).                    *)
(***************************************************************************)

\* The text reaches rule 4 and passes its test: no earlier rule matches, its
\* characters are alphanumeric and its capitals are under a tenth of its
\* lower-case letters.
PassesRuleFour(text) ==
    /\ ~is_superset_of(MORSE, CharacterSet_raw(text))
    /\ ~is_superset_of(OCTAL, CharacterSet_raw(text))
    /\ ~is_superset_of(HEX, CharacterSet_raw(text))
    /\ is_superset_of(ALPHANUMERIC, CharacterSet_of(text))
    /\ 10 * count_uppercase(text) < count_lowercase(text)

\* The index of coincidence n/d of the text is in the closed range [0.6, 0.75].
InClosedBand(text) ==
    LET ioc == index_of_coincidence(text, FALSE).v
    IN 6 * ioc.d <= 10 * ioc.n /\ 100 * ioc.n <= 75 * ioc.d

\* C27: for a text that passes rule 4's test, best_match returns
\* Transposition exactly when the index of coincidence is in [0.6, 0.75],
\* both bounds included, and Substitution otherwise.
C27_ClosedTranspositionBand ==
    (cipher_type # NotCalled /\ PassesRuleFour(ciphertext)) =>
        cipher_type = IF InClosedBand(ciphertext) THEN Some("Transposition")
                      ELSE Some("Substitution")

(***************************************************************************)
(* The settings search (specification SpecCracker).                        *)
(***************************************************************************)

\* The index of coincidence of the ciphertext decrypted by the machine with
\* the call's rotors and ring positions and the ring settings `settings`.
IocWithSettings(settings) ==
    index_of_coincidence(
        EnigmaMachine_decrypt(
            cracker_machine(CrackerPlugboard, CrackerReflector, call.args[1], call.args[2],
                            settings, FALSE).v,
            call.args[3]).v,
        FALSE).v

\* C28: best_ring_settings returns a triple of ring settings whose
\* decryption, with rotors and ring positions held fixed, has the smallest
\* |IoC - 0.0667| among all the triples searched.
C28_BestRingSettings ==
    call.op = "best_ring_settings" =>
        /\ call.self.tag = "Ok"
        /\ \A k \in 1..Len(ring_triples) :
              ~closer(IocWithSettings(ring_triples[k]), IocWithSettings(call.self.v))

(***************************************************************************)
(* The Gronsfeld key search (specification SpecGronsfeld).                 *)
(***************************************************************************)

\* The digit strings of length n.
DigitStrings(n) == [1..n -> 48..57]

\* The key length of the iteration the state is the result of.
TriedLength == IF run.status = "searching" THEN run.key_digits - 1 ELSE run.key_digits

\* C29: the search tries the key lengths 1, 2, 3, ... in turn and never ends
\* by itself other than by returning; an iteration that completes for length
\* L has decrypted under every digit string of length L, repeated digits
\* included; it returns a text whose score is above 0.85 and otherwise goes
\* on to L + 1.
C29_EveryKeyOfEachLength ==
    (run.op = "GronsfeldCracker::decrypt" /\ run.result # NotCalled) =>
        /\ run.status \in {"searching", "returned"}
        /\ run.keys = DigitStrings(TriedLength)
        /\ run.status = "returned" =>
              score(run.result.v, overflow_checks).v * 100 > 85 * Unit

(***************************************************************************)
(* The layered cracker (specification SpecCrack).                          *)
(***************************************************************************)

\* crack has returned Ok from a call that took the Octal, Base64 or Morse
\* branch.
ReturnedThroughDecoder ==
    /\ run.op = "crack"
    /\ run.status = "returned"
    /\ run.branch \in {"Octal", "Base64", "Morse"}

\* C30: check_for_encryption returns only a text whose score has reached the
\* threshold: every text crack returns Ok through its Octal, Base64 or Morse
\* branch has a score of at least 0.8.
C30_ReturnedTextMeetsThreshold ==
    ReturnedThroughDecoder =>
        LET value == score(run.result.v, overflow_checks)
        IN value.tag = "f64" /\ value.v * 10 >= 8 * Unit

=============================================================================
